---- MODULE Spec2Model ----
(***************************************************************************)
(* A model of the temporal-replay core of time_travel_stealth_game:        *)
(*   - collections/history.rs      History<T>, Record<T>                    *)
(*   - level/entity_tracker/entity/player.rs   Player (paradox evaluator)   *)
(*   - level/light_grid.rs         LightGrid's corner cache, raycast and    *)
(*                                 trace_light_from                         *)
(*   - collections/tile_grid.rs    TileGrid<T>, TileRect                    *)
(*   - collections/slot_guard.rs   SlotGuard                                *)
(*   - collections/small_map.rs    SmallMap<K, V>                           *)
(*   - level.rs                    the logic evaluation of update_game      *)
(* Each part has its own specification (SpecHistory, SpecLongRecord,       *)
(* SpecPlayer, SpecSustained, SpecParadox, SpecLightGrid, SpecTracer,      *)
(* SpecRaycast, SpecTileGrid, SpecSlotGuard, SpecSmallMap, SpecLogic) over *)
(* its own variables; the other variables stay at their initial values.    *)
(***************************************************************************)
EXTENDS Integers, Sequences, FiniteSets, TLC

VARIABLES
    \* ---- History under test (collections/history.rs) ----
    data,        \* History::data: Vec<Record<T>>
    call,        \* the last try_insert call: <<index, entry>>, or <<>> before any
    ret,         \* what the last try_insert returned: Some(()) or None
    written,     \* reference map frame -> Option<T>: the first value a call gave for a frame
    ordered,     \* TRUE while every call's frame was above all frames called before
    \* ---- LightGrid (level/light_grid.rs) ----
    grid,        \* LightGrid::grid: TileGrid<Pixel>, [bounds, tiles]
    updated,     \* LightGrid::updated
    corners,     \* LightGrid::corners: Vec<Corner>
    lgOp,        \* the last LightGrid operation: "none", "index_mut", "fill_tile", "corners", "trace"
    lgUsed,      \* the corner list the last corners() / trace_light_from call worked with
    lgRegen,     \* whether that call ran regenerate_corners
    lgDirty,     \* TRUE when a grid write happened since the last such call
    lgWrites,    \* number of grid writes so far
    lgArea,      \* the last trace_light_from call with a LightArea: [op, origin, range, area]
    \* ---- Level and Player (level.rs, level/entity_tracker/entity/player.rs) ----
    level_frame,    \* Level::frame
    overflowChecks, \* whether the build panics on integer overflow
    panicked,       \* TRUE once a panic ended the program
    player,         \* the Player among Level::entities
    initial,        \* the same slot of Level::soft_reset_state
    others,         \* the other entities: key -> [exists, position, extra, inView]
    calls,          \* the Player calls the last step made, in order
    recorded,       \* frame -> Option: the position the Active player recorded
    sights,         \* key -> frame -> Option: the visible state the Active player recorded
    clean,          \* nothing a Recording update of this replay observed differed from the recording
    inputEvents,    \* number of key events so far
    entityChanges,  \* number of changes of the other entities so far
    travels,        \* number of soft resets so far
    \* ---- TileGrid<T> (collections/tile_grid.rs) ----
    tgGrid,      \* the TileGrid: [bounds, tiles]
    tgLive,      \* reference map index -> Option: the value last written to a cell no resize has dropped
    tgCall,      \* the last TileGrid call: [op, index, rect, value, before, ret]
    tgOps,       \* number of TileGrid calls so far
    \* ---- raycast (level/light_grid.rs) ----
    rayFunction, \* the cells of the region the collision function answers true for
    rayCall,     \* the last raycast call: [op, start, direction, max_distance, ret]
    \* ---- SlotGuard over Level::entities (collections/slot_guard.rs, level.rs) ----
    sgEntities,  \* the collection behind the guard: key -> value
    sgPending,   \* the keys update_game's loop has yet to reach
    sgProtected, \* SlotGuard::protected_slot while a guard is alive: Some(key), else None
    sgAccess,    \* the last call on SlotGuard: [op, index, protected, yielded, panicked]
    \* ---- SmallMap<K, V> (collections/small_map.rs) ----
    smMap,       \* the SmallMap: [data, first_free, len]
    smCall,      \* the last SmallMap call: [op, arg, before, ret, panicked]
    \* ---- the logic evaluation of Level::update_game (level.rs) ----
    logic        \* [inputs, running, stack, updates, visited, evaluated, iterations]

histVars == <<data, call, ret, written, ordered>>

lightVars == <<grid, updated, corners, lgOp, lgUsed, lgRegen, lgDirty, lgWrites>>

playerVars == <<level_frame, overflowChecks, panicked, player, initial, others, calls,
                recorded, sights, clean, inputEvents, entityChanges, travels>>

tileVars == <<tgGrid, tgLive, tgCall, tgOps>>

rayVars == <<rayFunction, rayCall>>

traceVars == <<lgArea>>

guardVars == <<sgEntities, sgPending, sgProtected, sgAccess>>

smallVars == <<smMap, smCall>>

logicVars == <<logic>>

vars == <<data, call, ret, written, ordered,
          grid, updated, corners, lgOp, lgUsed, lgRegen, lgDirty, lgWrites,
          level_frame, overflowChecks, panicked, player, initial, others, calls,
          recorded, sights, clean, inputEvents, entityChanges, travels,
          tgGrid, tgLive, tgCall, tgOps,
          rayFunction, rayCall, lgArea,
          sgEntities, sgPending, sgProtected, sgAccess, smMap, smCall, logic>>

\* What the steps of one part leave alone
otherThanHist == <<lightVars, playerVars, tileVars, rayVars, traceVars, guardVars, smallVars, logicVars>>
otherThanLight == <<histVars, playerVars, tileVars, rayVars, traceVars, guardVars, smallVars, logicVars>>
otherThanPlayer == <<histVars, lightVars, tileVars, rayVars, traceVars, guardVars, smallVars, logicVars>>
otherThanTile == <<histVars, lightVars, playerVars, rayVars, traceVars, guardVars, smallVars, logicVars>>
otherThanRay == <<histVars, lightVars, playerVars, tileVars, traceVars, guardVars, smallVars, logicVars>>
otherThanTrace == <<histVars, playerVars, tileVars, rayVars, guardVars, smallVars, logicVars>>
otherThanGuard == <<histVars, lightVars, playerVars, tileVars, rayVars, traceVars, smallVars, logicVars>>
otherThanSmall == <<histVars, lightVars, playerVars, tileVars, rayVars, traceVars, guardVars, logicVars>>
otherThanLogic == <<histVars, lightVars, playerVars, tileVars, rayVars, traceVars, guardVars, smallVars>>

(***************************************************************************)
(* Option<T>: None is the empty tuple, Some(x) the 1-tuple.                *)
(***************************************************************************)
None == <<>>
Some(x) == <<x>>
IsSome(o) == o # <<>>
Unwrap(o) == o[1]

(***************************************************************************)
(* Bounds of the History specification.                                    *)
(***************************************************************************)
HistMaxFrame == 5
HistFrames == 0..HistMaxFrame
HistValues == {"a", "b"}

(***************************************************************************)
(* Record<T>                                                               *)
(***************************************************************************)
CONVERSION_THRESHOLD == 5
MAXIMUM_RECORD_LENGTH == 256

Constant(start, finish, value) ==
    [kind |-> "Constant", start |-> start, finish |-> finish, value |-> value]

Variable(start, values) ==
    [kind |-> "Variable", start |-> start, values |-> values]

\* Record::new
RecordNew(start, value) == Constant(start, start + 1, value)

\* Record::start
Start(record) == record.start

\* Record::finish
Finish(record) ==
    IF record.kind = "Constant" THEN record.finish
    ELSE record.start + Len(record.values)

\* A range that leaves out its first frame.
RangeContains_OpenStart(record, index) == Start(record) < index /\ index < Finish(record)

\* Record::range().contains(&index)
RangeContains(record, index) == Start(record) <= index /\ index < Finish(record)

\* Record::get
RecordGet(record, index) ==
    IF RangeContains(record, index)
    THEN IF record.kind = "Constant" THEN Some(record.value)
         ELSE Some(record.values[index - record.start + 1])
    ELSE None

\* values.iter().rev().take_while(|x| **x == entry).count()
RECURSIVE TrailingCount(_, _)
TrailingCount(values, entry) ==
    IF values = <<>> \/ values[Len(values)] # entry THEN 0
    ELSE 1 + TrailingCount(SubSeq(values, 1, Len(values) - 1), entry)

\* A Constant record that starts a new record even for an equal value.
ExtendConstant_NeverBumps(record, entry) ==
    IF record.finish - record.start = 1 /\ record.value # entry
    THEN [self |-> Variable(record.start, <<record.value, entry>>), new |-> None]
    ELSE [self |-> record, new |-> Some(RecordNew(record.finish, entry))]

\* A Constant record that a different value never turns into a Variable
\* record.
ExtendConstant_AlwaysSplits(record, entry) ==
    IF record.value = entry
    THEN [self |-> Constant(record.start, record.finish + 1, record.value), new |-> None]
    ELSE [self |-> record, new |-> Some(RecordNew(record.finish, entry))]

\* Record::extend on a Constant record: [self |-> the record afterwards,
\* new |-> Option<Record> returned]
ExtendConstant(record, entry) ==
    IF record.value = entry
    THEN [self |-> Constant(record.start, record.finish + 1, record.value), new |-> None]
    ELSE IF record.finish - record.start = 1
         THEN [self |-> Variable(record.start, <<record.value, entry>>), new |-> None]
         ELSE [self |-> record, new |-> Some(RecordNew(record.finish, entry))]

\* A conversion that truncates the value before the run as well.
ExtendVariable_TruncatesOneMore(record, entry) ==
    LET values == record.values
        count == TrailingCount(values, entry)
    IN  IF Len(values) >= CONVERSION_THRESHOLD /\ count + 1 >= CONVERSION_THRESHOLD
        THEN LET kept == SubSeq(values, 1, Len(values) - count - 1)
                 new_start == record.start + Len(kept)
             IN  [self |-> Variable(record.start, kept),
                  new |-> Some(Constant(new_start, new_start + count + 2, entry))]
        ELSE [self |-> Variable(record.start, Append(values, entry)), new |-> None]

\* A Variable record that never converts a trailing run.
ExtendVariable_NeverConverts(record, entry) ==
    [self |-> Variable(record.start, Append(record.values, entry)), new |-> None]

\* A conversion that forgets the entry being added in the new record's finish.
ExtendVariable_ShortFinish(record, entry) ==
    LET values == record.values
        count == TrailingCount(values, entry)
    IN  IF Len(values) >= CONVERSION_THRESHOLD /\ count + 1 >= CONVERSION_THRESHOLD
        THEN LET kept == SubSeq(values, 1, Len(values) - count)
                 new_start == record.start + Len(kept)
             IN  [self |-> Variable(record.start, kept),
                  new |-> Some(Constant(new_start, new_start + count, entry))]
        ELSE [self |-> Variable(record.start, Append(values, entry)), new |-> None]

\* A Variable record that grows past the greatest length.
ExtendVariable_Unbounded(record, entry) ==
    LET values == record.values
        count == TrailingCount(values, entry)
    IN  IF Len(values) >= CONVERSION_THRESHOLD /\ count + 1 >= CONVERSION_THRESHOLD
        THEN IF Len(values) = count
             THEN [self |-> Constant(record.start, record.start + Len(values) + 1, entry),
                   new |-> None]
             ELSE LET kept == SubSeq(values, 1, Len(values) - count)
                      new_start == record.start + Len(kept)
                  IN  [self |-> Variable(record.start, kept),
                       new |-> Some(Constant(new_start, new_start + count + 1, entry))]
        ELSE [self |-> Variable(record.start, Append(values, entry)), new |-> None]

\* Record::extend on a Variable record
ExtendVariable(record, entry) ==
    LET values == record.values
        count == TrailingCount(values, entry)
    IN  IF Len(values) >= CONVERSION_THRESHOLD /\ count + 1 >= CONVERSION_THRESHOLD
        THEN IF Len(values) = count
             THEN [self |-> Constant(record.start, record.start + Len(values) + 1, entry),
                   new |-> None]
             ELSE LET kept == SubSeq(values, 1, Len(values) - count)
                      new_start == record.start + Len(kept)
                  IN  [self |-> Variable(record.start, kept),
                       new |-> Some(Constant(new_start, new_start + count + 1, entry))]
        ELSE IF Len(values) > MAXIMUM_RECORD_LENGTH
             THEN LET new_start == record.start + Len(values)
                  IN  [self |-> record,
                       new |-> Some(Constant(new_start, new_start + 1, entry))]
             ELSE [self |-> Variable(record.start, Append(values, entry)), new |-> None]

\* Record::extend
Extend(record, entry) ==
    IF record.kind = "Constant" THEN ExtendConstant(record, entry)
    ELSE ExtendVariable(record, entry)

(***************************************************************************)
(* History<T>                                                              *)
(***************************************************************************)
\* An insert that puts x one place too late.
InsertAt_OneLate(seq, i, x) ==
    IF i > Len(seq) THEN Append(seq, x)
    ELSE SubSeq(seq, 1, i) \o <<x>> \o SubSeq(seq, i + 1, Len(seq))

\* Vec::insert(i, x), i 1-based: x becomes element i
InsertAt(seq, i, x) == SubSeq(seq, 1, i - 1) \o <<x>> \o SubSeq(seq, i, Len(seq))

\* slice::binary_search_by_key(&index, |record| record.start()): the loop of
\* the standard library, on 0-based positions; [ok, pos]
RECURSIVE BinarySearchLoop(_, _, _, _)
BinarySearchLoop(records, index, base, size) ==
    IF size > 1
    THEN LET half == size \div 2
             mid == base + half
         IN  BinarySearchLoop(records, index,
                              IF Start(records[mid + 1]) > index THEN base ELSE mid,
                              size - half)
    ELSE LET key == Start(records[base + 1])
         IN  IF key = index THEN [ok |-> TRUE, pos |-> base]
             ELSE [ok |-> FALSE, pos |-> base + (IF key < index THEN 1 ELSE 0)]

BinarySearch(records, index) ==
    IF Len(records) = 0 THEN [ok |-> FALSE, pos |-> 0]
    ELSE BinarySearchLoop(records, index, 0, Len(records))

\* History::get; a wrapped record index (usize::MAX) is past the end of data
Get(records, index) ==
    LET found == BinarySearch(records, index)
        record_index == IF found.ok THEN found.pos ELSE found.pos - 1
    IN  IF record_index < 0 \/ record_index >= Len(records) THEN None
        ELSE RecordGet(records[record_index + 1], index)

\* The body of the for loop of History::try_insert from record i (1-based) on,
\* and the push after it: [data |-> the records afterwards, result |-> Option<()>]
RECURSIVE TryInsertFrom(_, _, _, _)
TryInsertFrom(records, i, index, entry) ==
    IF i > Len(records)
    THEN [data |-> Append(records, RecordNew(index, entry)), result |-> Some(<<>>)]
    ELSE LET record == records[i]
         IN  IF Finish(record) < index
             THEN TryInsertFrom(records, i + 1, index, entry)
             ELSE IF Start(record) > index
             THEN [data |-> InsertAt(records, i, RecordNew(index, entry)),
                   result |-> Some(<<>>)]
             ELSE IF Finish(record) = index
             THEN IF i + 1 <= Len(records) /\ Start(records[i + 1]) <= index
                  THEN [data |-> records, result |-> None]
                  ELSE LET ext == Extend(record, entry)
                           extended == [records EXCEPT ![i] = ext.self]
                       IN  [data |-> IF IsSome(ext.new)
                                     THEN InsertAt(extended, i + 1, Unwrap(ext.new))
                                     ELSE extended,
                            result |-> Some(<<>>)]
             ELSE IF RangeContains(record, index)
             THEN [data |-> records, result |-> None]
             ELSE TryInsertFrom(records, i + 1, index, entry)

\* History::try_insert
TryInsert(records, index, entry) == TryInsertFrom(records, 1, index, entry)

\* History::default, before any call
HistoryDefault ==
    /\ data = <<>>
    /\ call = <<>>
    /\ ret = None
    /\ written = [f \in HistFrames |-> None]
    /\ ordered = TRUE

(***************************************************************************)
(* TileRect and TileGrid<T> (collections/tile_grid.rs).  Points and sizes  *)
(* are pairs <<x, y>>; tiles is the row-major Box<[T]>.                     *)
(***************************************************************************)
TileRect(origin, size) == [origin |-> origin, size |-> size]

\* TileRect::default
TileRectDefault == TileRect(<<0, 0>>, <<0, 0>>)

\* TileRect::left / right / top / bottom
Left(rect) == rect.origin[1]
Right(rect) == rect.origin[1] + rect.size[1] - 1
Top(rect) == rect.origin[2]
Bottom(rect) == rect.origin[2] + rect.size[2] - 1

\* TileRect::max_corner
MaxCorner(rect) == <<rect.origin[1] + rect.size[1], rect.origin[2] + rect.size[2]>>

\* TileRect::area
Area(rect) == rect.size[1] * rect.size[2]

\* TileRect::is_empty
RectIsEmpty(rect) == rect.size[1] = 0 \/ rect.size[2] = 0

Min(a, b) == IF a < b THEN a ELSE b
Max(a, b) == IF a > b THEN a ELSE b
AbsDiff(a, b) == IF a > b THEN a - b ELSE b - a

\* An expansion that moves the rectangle onto the new bounds
ExpandToIncludeBounds_Replaces(self, bounds, min_expansion) ==
    [rect |-> IF Left(bounds) >= Left(self) /\ Right(bounds) <= Right(self)
                 /\ Top(bounds) >= Top(self) /\ Bottom(bounds) <= Bottom(self)
              THEN self ELSE bounds,
     expanded |-> ~(Left(bounds) >= Left(self) /\ Right(bounds) <= Right(self)
                    /\ Top(bounds) >= Top(self) /\ Bottom(bounds) <= Bottom(self))]

\* TileRect::expand_to_include_bounds: [rect |-> self afterwards, expanded |-> returned]
ExpandToIncludeBounds(self, bounds, min_expansion) ==
    LET was_empty == RectIsEmpty(self)
        start == IF was_empty THEN bounds ELSE self
        grows_low(i) == bounds.origin[i] < start.origin[i]
        origin == [i \in 1..2 |->
                     IF grows_low(i)
                     THEN Min(bounds.origin[i], start.origin[i] - min_expansion[i])
                     ELSE start.origin[i]]
        end_corner == MaxCorner(start)
        bounds_end_corner == MaxCorner(bounds)
        grows_high(i) == bounds_end_corner[i] > end_corner[i]
        new_end == [i \in 1..2 |->
                      IF grows_high(i)
                      THEN Max(bounds_end_corner[i], end_corner[i] + min_expansion[i])
                      ELSE end_corner[i]]
    IN  [rect |-> TileRect(<<origin[1], origin[2]>>,
                           <<AbsDiff(origin[1], new_end[1]), AbsDiff(origin[2], new_end[2])>>),
         expanded |-> was_empty \/ \E i \in 1..2 : grows_low(i) \/ grows_high(i)]

\* TileRect::expand_to_include_index
ExpandToIncludeIndex(self, index, min_expansion) ==
    ExpandToIncludeBounds(self, TileRect(index, <<1, 1>>), min_expansion)

\* TileGrid::default
TileGridDefault == [bounds |-> TileRectDefault, tiles |-> <<>>]

\* A linear index that takes an offset below the origin for its distance
LinearIndexOf_NoSignCheck(g, index) ==
    LET ox == AbsDiff(index[1], g.bounds.origin[1])
        oy == AbsDiff(index[2], g.bounds.origin[2])
    IN  IF ox < g.bounds.size[1] /\ oy < g.bounds.size[2]
        THEN Some(ox + oy * g.bounds.size[1])
        ELSE None

\* TileGrid::linear_index_of: Some(0-based linear index) or None
LinearIndexOf(g, index) ==
    LET ox == index[1] - g.bounds.origin[1]
        oy == index[2] - g.bounds.origin[2]
    IN  IF ox < 0 \/ oy < 0 THEN None
        ELSE IF ox < g.bounds.size[1] /\ oy < g.bounds.size[2]
             THEN Some(ox + oy * g.bounds.size[1])
             ELSE None

\* Index<TileIndex> for TileGrid: a read; `empty` is T::empty()
TileGridIndex(g, index, empty) ==
    LET linear == LinearIndexOf(g, index)
    IN  IF IsSome(linear) THEN g.tiles[Unwrap(linear) + 1] ELSE empty

\* A resize that keeps each cell at its linear position
SetBounds_NoOffset(g, bounds, default) ==
    [bounds |-> bounds,
     tiles |-> SubSeq([k \in 1..Area(bounds) |->
                          IF k <= Len(g.tiles) THEN g.tiles[k] ELSE default],
                      1, Area(bounds))]

\* TileGrid::set_bounds; `default` is T::default().  An old index that wraps
\* below zero is not below the old size.
SetBounds(g, bounds, default) ==
    LET offx == bounds.origin[1] - g.bounds.origin[1]
        offy == bounds.origin[2] - g.bounds.origin[2]
        tile(i) == LET oldx == (i % bounds.size[1]) + offx
                       oldy == (i \div bounds.size[1]) + offy
                   IN  IF /\ oldx >= 0 /\ oldx < g.bounds.size[1]
                          /\ oldy >= 0 /\ oldy < g.bounds.size[2]
                       THEN g.tiles[oldx + oldy * g.bounds.size[1] + 1]
                       ELSE default
    IN  [bounds |-> bounds,
         tiles |-> SubSeq([k \in 1..Area(bounds) |-> tile(k - 1)], 1, Area(bounds))]

\* An expansion that computes the new bounds and never resizes to them
ExpandToFitIndex_NoResize(g, index, default) ==
    [grid |-> g,
     expanded |-> ExpandToIncludeIndex(g.bounds, index,
                      <<g.bounds.size[1] \div 2, g.bounds.size[2] \div 2>>).expanded]

\* TileGrid::expand_to_fit_index: [grid |-> self afterwards, expanded |-> returned]
ExpandToFitIndex(g, index, default) ==
    LET exp == ExpandToIncludeIndex(g.bounds, index,
                                    <<g.bounds.size[1] \div 2, g.bounds.size[2] \div 2>>)
    IN  [grid |-> IF exp.expanded THEN SetBounds(g, exp.rect, default) ELSE g,
         expanded |-> exp.expanded]

\* IndexMut<TileIndex> for TileGrid followed by the assignment of value to the
\* slot returned; `present` is FALSE where "Tile index should be present" fires
TileGridIndexMut(g, index, value, default) ==
    LET fit == ExpandToFitIndex(g, index, default).grid
        linear == LinearIndexOf(fit, index)
    IN  IF IsSome(linear)
        THEN [grid |-> [fit EXCEPT !.tiles[Unwrap(linear) + 1] = value], present |-> TRUE]
        ELSE [grid |-> fit, present |-> FALSE]

\* TileGrid::expand_to_fit_bounds: [grid |-> self afterwards, expanded |->
\* returned].  Its `let mut bounds = self.bounds;` shadows the parameter, so
\* the rectangle expanded and the rectangle to include are both self.bounds.
ExpandToFitBounds(g, bounds, default) ==
    LET exp == ExpandToIncludeBounds(g.bounds, g.bounds,
                                     <<g.bounds.size[1] \div 2, g.bounds.size[2] \div 2>>)
    IN  [grid |-> IF exp.expanded THEN SetBounds(g, exp.rect, default) ELSE g,
         expanded |-> exp.expanded]

\* TileRect::contains_point and TileRect::contains
ContainsPoint(rect, point) ==
    /\ Left(rect) <= point[1] /\ Right(rect) >= point[1]
    /\ Top(rect) <= point[2] /\ Bottom(rect) >= point[2]
Contains(rect, rhs) ==
    /\ Left(rect) <= Left(rhs) /\ Right(rect) >= Right(rhs)
    /\ Top(rect) <= Top(rhs) /\ Bottom(rect) >= Bottom(rhs)

\* The indexes a TileRect holds
Cells(rect) == (Left(rect)..Right(rect)) \X (Top(rect)..Bottom(rect))

\* The calls of the TileGrid specification: the values written (T::empty()
\* and T::default() are TileEmpty), the indexes and the rectangles
TileMaxOps == 3
TileValues == {"a", "b"}
TileEmpty == "empty"
TileIndexRange == {-2, 0, 3} \X {0, 1}
TileRects == {TileRect(<<-1, 0>>, <<3, 2>>), TileRect(<<1, 0>>, <<4, 1>>),
              TileRect(<<0, 1>>, <<0, 0>>)}
NoIndex == <<0, 0>>

\* A TileGrid just constructed, no call made yet
TileGridNew ==
    /\ tgGrid = TileGridDefault
    /\ tgLive = [i \in TileIndexRange |-> None]
    /\ tgCall = [op |-> "none", index |-> NoIndex, rect |-> TileRectDefault,
                 value |-> TileEmpty, before |-> TileGridDefault, ret |-> FALSE]
    /\ tgOps = 0

(***************************************************************************)
(* LightGrid (level/light_grid.rs)                                         *)
(***************************************************************************)
TILE_SIZE == 8

\* Pixel, Pixel::default, Pixel::empty, Pixel::blocks_light
Pixels == {"None", "Solid"}
PixelDefault == "Solid"
PixelEmpty == "Solid"
BlocksLight(pixel) == pixel # "None"

\* A table whose convex corners are named after the quadrant of the
\* blocking cell
FromNeighborhood_TowardBlocking(n) ==
    CASE n = <<<<TRUE, FALSE>>, <<FALSE, FALSE>>>> -> <<"ConvexNorthWest">>
      [] n = <<<<FALSE, TRUE>>, <<FALSE, FALSE>>>> -> <<"ConvexNorthEast">>
      [] n = <<<<FALSE, FALSE>>, <<TRUE, FALSE>>>> -> <<"ConvexSouthWest">>
      [] n = <<<<FALSE, FALSE>>, <<FALSE, TRUE>>>> -> <<"ConvexSouthEast">>
      [] n = <<<<TRUE, FALSE>>, <<FALSE, TRUE>>>> -> <<"ConcaveNorthEast", "ConcaveSouthWest">>
      [] n = <<<<FALSE, TRUE>>, <<TRUE, FALSE>>>> -> <<"ConcaveNorthWest", "ConcaveSouthEast">>
      [] n = <<<<TRUE, FALSE>>, <<TRUE, TRUE>>>> -> <<"ConcaveNorthEast">>
      [] n = <<<<FALSE, TRUE>>, <<TRUE, TRUE>>>> -> <<"ConcaveNorthWest">>
      [] n = <<<<TRUE, TRUE>>, <<TRUE, FALSE>>>> -> <<"ConcaveSouthEast">>
      [] n = <<<<TRUE, TRUE>>, <<FALSE, TRUE>>>> -> <<"ConcaveSouthWest">>
      [] OTHER -> <<>>

\* CornerDirection::from_neighborhood; the neighbourhood is
\* <<<<(x-1,y-1), (x,y-1)>>, <<(x-1,y), (x,y)>>>>
FromNeighborhood(n) ==
    CASE n = <<<<TRUE, FALSE>>, <<FALSE, FALSE>>>> -> <<"ConvexSouthEast">>
      [] n = <<<<FALSE, TRUE>>, <<FALSE, FALSE>>>> -> <<"ConvexSouthWest">>
      [] n = <<<<FALSE, FALSE>>, <<TRUE, FALSE>>>> -> <<"ConvexNorthEast">>
      [] n = <<<<FALSE, FALSE>>, <<FALSE, TRUE>>>> -> <<"ConvexNorthWest">>
      [] n = <<<<TRUE, FALSE>>, <<FALSE, TRUE>>>> -> <<"ConcaveNorthEast", "ConcaveSouthWest">>
      [] n = <<<<FALSE, TRUE>>, <<TRUE, FALSE>>>> -> <<"ConcaveNorthWest", "ConcaveSouthEast">>
      [] n = <<<<TRUE, FALSE>>, <<TRUE, TRUE>>>> -> <<"ConcaveNorthEast">>
      [] n = <<<<FALSE, TRUE>>, <<TRUE, TRUE>>>> -> <<"ConcaveNorthWest">>
      [] n = <<<<TRUE, TRUE>>, <<TRUE, FALSE>>>> -> <<"ConcaveSouthEast">>
      [] n = <<<<TRUE, TRUE>>, <<FALSE, TRUE>>>> -> <<"ConcaveSouthWest">>
      [] OTHER -> <<>>

\* The neighbourhood regenerate_corners reads at lattice vertex (x, y)
Neighborhood(g, x, y) ==
    [v \in 1..2 |-> [u \in 1..2 |->
        BlocksLight(TileGridIndex(g, <<x + (u - 1) - 1, y + (v - 1) - 1>>, PixelEmpty))]]

\* A vertex that contributes its first corner only
CornersAt_FirstOnly(g, x, y) ==
    LET directions == FromNeighborhood(Neighborhood(g, x, y))
    IN  [k \in 1..Min(Len(directions), 1) |->
            [location |-> <<x, y>>, direction |-> directions[k]]]

\* The corners regenerate_corners pushes for vertex (x, y)
CornersAt(g, x, y) ==
    LET directions == FromNeighborhood(Neighborhood(g, x, y))
    IN  [k \in 1..Len(directions) |-> [location |-> <<x, y>>, direction |-> directions[k]]]

\* The inner loop of regenerate_corners: y from y0 to y1
RECURSIVE CornersOfColumn(_, _, _, _)
CornersOfColumn(g, x, y0, y1) ==
    IF y0 > y1 THEN <<>>
    ELSE CornersAt(g, x, y0) \o CornersOfColumn(g, x, y0 + 1, y1)

\* The outer loop of regenerate_corners: x from x0 to x1
RECURSIVE CornersOfColumns(_, _, _)
CornersOfColumns(g, x0, x1) ==
    IF x0 > x1 THEN <<>>
    ELSE CornersOfColumn(g, x0, Top(g.bounds), Bottom(g.bounds) + 1)
         \o CornersOfColumns(g, x0 + 1, x1)

\* LightGrid::regenerate_corners: the new corner list
RegenerateCorners(g) == CornersOfColumns(g, Left(g.bounds), Right(g.bounds) + 1)

\* An index_mut that leaves the updated flag as it was
LightIndexMut_NoFlag(lg, index, pixel) ==
    LET res == TileGridIndexMut(lg.grid, index, pixel, PixelDefault)
    IN  [grid |-> res.grid, updated |-> lg.updated, present |-> res.present]

\* IndexMut for LightGrid and the assignment through it: [grid, updated,
\* present]; present is FALSE where the expect of TileGrid's index_mut fires
LightIndexMut(lg, index, pixel) ==
    LET res == TileGridIndexMut(lg.grid, index, pixel, PixelDefault)
    IN  [grid |-> res.grid, updated |-> TRUE, present |-> res.present]

\* The loops of LightGrid::fill_tile over the points of a tile, in order:
\* k counts the points written so far; a failed expect ends the call
RECURSIVE FillFrom(_, _, _, _)
FillFrom(lg, corner, pixel, k) ==
    IF k >= TILE_SIZE * TILE_SIZE THEN lg
    ELSE LET next == LightIndexMut(lg, <<corner[1] + (k \div TILE_SIZE),
                                         corner[2] + (k % TILE_SIZE)>>, pixel)
         IN  IF next.present THEN FillFrom(next, corner, pixel, k + 1) ELSE next

\* LightGrid::fill_tile: [grid, updated, present]
FillTile(lg, index, pixel) ==
    FillFrom([grid |-> lg.grid, updated |-> lg.updated, present |-> TRUE],
             <<index[1] * TILE_SIZE, index[2] * TILE_SIZE>>, pixel, 0)

\* LightGrid::corners: [updated, corners, regenerated]
Corners(lg) ==
    IF lg.updated
    THEN [updated |-> FALSE, corners |-> RegenerateCorners(lg.grid), regenerated |-> TRUE]
    ELSE [updated |-> lg.updated, corners |-> lg.corners, regenerated |-> FALSE]

(***************************************************************************)
(* Player (level/entity_tracker/entity/player.rs), along one axis.         *)
(* Lengths are in units of 1/15 pixel, so that one frame of motion at      *)
(* speed 64 is 16 units; f64 values are exact in these units and an f32    *)
(* holds only the multiples of 3, which makes `as f32` a rounding.         *)
(* Confusion and paradox levels are fixed-point: ConfusionOne is 1.0.      *)
(***************************************************************************)
UPDATE_TPS == 60
CONFUSION_TIME == <<1, 10>>
RECOVERY_TIME == <<5, 1>>
CONFUSION_FALLOFF_DISTANCE == 24
MAXIMUM_TEMPORAL_OFFSET == 2
PlayerSpeed == 64
PlayerSize == 6
ViewWidth == 120
ConfusionOne == 3600

Px(n) == 15 * n
Floor(x) == x \div Px(1)
Ceil(x) == -((-x) \div Px(1))
Abs(x) == IF x < 0 THEN -x ELSE x
Sign(x) == IF x < 0 THEN -1 ELSE IF x > 0 THEN 1 ELSE 0
Clamp(x, lo, hi) == IF x < lo THEN lo ELSE IF x > hi THEN hi ELSE x

\* `x as f32`, and the f64 it reads back as
F32(x) == 3 * ((x + 1) \div 3)

\* usize arithmetic without overflow checks wraps modulo UsizeModulus (the
\* model's integers are narrower than usize; frames stay far below either)
UsizeModulus == 2^30
WrappingSub(a, b) == (a - b) % UsizeModulus

\* a..b as the sequence a Rust Range iterates
RangeSeq(a, b) == IF a < b THEN [i \in 1..(b - a) |-> a + i - 1] ELSE <<>>

\* The entities other than the player, in slot order, and the floor: the
\* pixels of the level that do not block motion
EntityOrder == <<"e">>
EntityKeys == {EntityOrder[i] : i \in DOMAIN EntityOrder}
FloorPixels == -8..7
BlocksMotion(x) == x \notin FloorPixels

\* AxialInput::new, key_down, key_up (the x axis of DirectionalInput: D, A)
AxialInputNew == [positive_down |-> FALSE, negative_down |-> FALSE, output |-> 0]
AxialKeyDown(axis, key) ==
    IF key = "D" THEN [axis EXCEPT !.output = 1, !.positive_down = TRUE]
    ELSE IF key = "A" THEN [axis EXCEPT !.output = -1, !.negative_down = TRUE]
    ELSE axis
AxialKeyUp(axis, key) ==
    IF key = "D"
    THEN [axis EXCEPT !.output = IF axis.negative_down THEN -1 ELSE 0,
                      !.positive_down = FALSE]
    ELSE IF key = "A"
    THEN [axis EXCEPT !.output = IF axis.positive_down THEN 1 ELSE 0,
                      !.negative_down = FALSE]
    ELSE axis

\* Player::default, at the position the level gives
PlayerDefault ==
    [position |-> 0, mouse_position |-> 0, view_direction |-> 1,
     motion_input |-> AxialInputNew, state |-> "Active",
     history |-> <<>>, environment_history |-> [k \in EntityKeys |-> None],
     confusion |-> 0, paradox_position |-> None, view_area |-> None]

\* Player::get_history_entry
GetHistoryEntry(p) ==
    [position |-> F32(p.position), mouse_position |-> F32(p.mouse_position)]

\* Player::update_view_direction
UpdateViewDirection(p) ==
    IF p.mouse_position - p.position # 0
    THEN [p EXCEPT !.view_direction = Sign(p.mouse_position - p.position)]
    ELSE p

\* EntityVisibleState::new of an entity that has a visible state
VisibleState(e) == [position |-> F32(e.position), extra |-> e.extra]

\* Entity::is_within_view_area: what the geometry of the level decides
IsWithinViewArea(e, view_area) == e.inView

\* The pixel move_along_axis collides with: the lowest blocking pixel under
\* the collision rect when moving up the axis, the highest when moving down
CollisionPixel(position, displacement) ==
    LET left == Floor(F32(position - Px(PlayerSize) \div 2))
        right == Ceil(F32(position - Px(PlayerSize) \div 2) + F32(Px(PlayerSize)))
        blocking == {x \in left..right : BlocksMotion(x)}
    IN  IF blocking = {} THEN None
        ELSE IF displacement > 0
             THEN Some(CHOOSE x \in blocking : \A y \in blocking : x <= y)
             ELSE Some(CHOOSE x \in blocking : \A y \in blocking : x >= y)

\* Player::move_along_axis
MoveAlongAxis(p, displacement) ==
    IF displacement = 0 THEN p
    ELSE LET old_position == p.position
             moved == old_position + displacement
             collision == CollisionPixel(moved, displacement)
             edge == IF displacement < 0 THEN Unwrap(collision) + 1
                     ELSE Unwrap(collision)
             stopped == Px(edge) - (Px(PlayerSize) * Sign(displacement)) \div 2
         IN  IF ~IsSome(collision) THEN [p EXCEPT !.position = moved]
             ELSE IF \/ (stopped < old_position) # (displacement < 0)
                     \/ Abs(stopped - old_position) > Abs(displacement)
                  THEN [p EXCEPT !.position = old_position]
                  ELSE [p EXCEPT !.position = stopped]

\* Vector2::angle between an offset and the view direction, in degrees
Angle(offset, view_direction) ==
    IF offset = 0 \/ Sign(offset) = view_direction THEN 0 ELSE 180

\* The smaller of two Option values, None being infinity
MinOfPresent(a, b) ==
    IF ~IsSome(a) THEN b
    ELSE IF ~IsSome(b) THEN a
    ELSE IF Unwrap(b) < Unwrap(a) THEN b ELSE a

\* (CONFUSION_FALLOFF_DISTANCE / distance).clamp(0.0, 1.0)
DistanceWeight(distance) ==
    IF distance = 0 THEN ConfusionOne
    ELSE Clamp((ConfusionOne * Px(CONFUSION_FALLOFF_DISTANCE)) \div distance,
               0, ConfusionOne)

\* (1.0 - 2.0 * angle / view_width).clamp(0.25, 1.0), as <<numerator, denominator>>
AngleWeight(angle) ==
    IF 4 * (ViewWidth - 2 * angle) < ViewWidth THEN <<1, 4>>
    ELSE IF ViewWidth - 2 * angle > ViewWidth THEN <<1, 1>>
    ELSE <<ViewWidth - 2 * angle, ViewWidth>>

\* A comparison that finds no paradox in an entity the recording lacks
CompareStates_ExpectedOnly(p, current_state, expected_state) ==
    IF current_state # expected_state /\ IsSome(expected_state)
    THEN LET dist(state) == IF IsSome(state)
                            THEN Some(Abs(Unwrap(state).position - p.position))
                            ELSE None
             ang(state) == IF IsSome(state)
                           THEN Some(Angle(Unwrap(state).position - p.position,
                                           p.view_direction))
                           ELSE None
             distance == Unwrap(MinOfPresent(dist(current_state), dist(expected_state)))
             angle == Unwrap(MinOfPresent(ang(current_state), ang(expected_state)))
             weight == AngleWeight(angle)
         IN  Some((DistanceWeight(distance) * weight[1]) \div weight[2])
    ELSE None

\* Player::compare_states: Some(level) if the states differ
CompareStates(p, current_state, expected_state) ==
    IF current_state # expected_state
    THEN LET dist(state) == IF IsSome(state)
                            THEN Some(Abs(Unwrap(state).position - p.position))
                            ELSE None
             ang(state) == IF IsSome(state)
                           THEN Some(Angle(Unwrap(state).position - p.position,
                                           p.view_direction))
                           ELSE None
             distance == Unwrap(MinOfPresent(dist(current_state), dist(expected_state)))
             angle == Unwrap(MinOfPresent(ang(current_state), ang(expected_state)))
             weight == AngleWeight(angle)
         IN  Some((DistanceWeight(distance) * weight[1]) \div weight[2])
    ELSE None

\* What the environment history of p expects of the entity key at frame
ExpectedState(p, key, frame) ==
    IF IsSome(p.environment_history[key])
    THEN Get(Unwrap(p.environment_history[key]), frame)
    ELSE None

\* A first loop that keeps the error of the last mismatched entity
RECURSIVE ParadoxOfEntitiesIn_Last(_, _, _, _, _, _)
ParadoxOfEntitiesIn_Last(order, p, frame, entities, i, acc) ==
    IF i > Len(order) THEN acc
    ELSE LET key == order[i]
             entity == entities[key]
             current_state == IF IsWithinViewArea(entity, Unwrap(p.view_area))
                              THEN Some(VisibleState(entity))
                              ELSE None
             expected_state == ExpectedState(p, key, frame)
             this_error == CompareStates(p, current_state, expected_state)
             next == IF ~entity.exists THEN acc
                     ELSE IF IsSome(this_error)
                     THEN <<this_error,
                            Some(Unwrap(IF IsSome(current_state) THEN current_state
                                        ELSE expected_state).position)>>
                     ELSE acc
         IN  ParadoxOfEntitiesIn_Last(order, p, frame, entities, i + 1, next)

\* The first loop of paradox_level over the entities of order, from entity i
\* on; acc is <<error, position>>
RECURSIVE ParadoxOfEntitiesIn(_, _, _, _, _, _)
ParadoxOfEntitiesIn(order, p, frame, entities, i, acc) ==
    IF i > Len(order) THEN acc
    ELSE LET key == order[i]
             entity == entities[key]
             current_state == IF IsWithinViewArea(entity, Unwrap(p.view_area))
                              THEN Some(VisibleState(entity))
                              ELSE None
             expected_state == ExpectedState(p, key, frame)
             this_error == CompareStates(p, current_state, expected_state)
             larger == /\ IsSome(this_error)
                       /\ (~IsSome(acc[1]) \/ Unwrap(this_error) > Unwrap(acc[1]))
             next == IF ~entity.exists THEN acc
                     ELSE IF larger
                     THEN <<this_error,
                            Some(Unwrap(IF IsSome(current_state) THEN current_state
                                        ELSE expected_state).position)>>
                     ELSE acc
         IN  ParadoxOfEntitiesIn(order, p, frame, entities, i + 1, next)

\* The second loop of paradox_level: recorded entities that exist no more
RECURSIVE ParadoxOfMissingIn(_, _, _, _, _, _)
ParadoxOfMissingIn(order, p, frame, entities, i, acc) ==
    IF i > Len(order) THEN acc
    ELSE LET key == order[i]
             expected_state == ExpectedState(p, key, frame)
             this_error == CompareStates(p, None, expected_state)
             larger == /\ IsSome(this_error)
                       /\ (~IsSome(acc[1]) \/ Unwrap(this_error) > Unwrap(acc[1]))
             next == IF entities[key].exists \/ ~IsSome(p.environment_history[key])
                     THEN acc
                     ELSE IF IsSome(expected_state) /\ larger
                     THEN <<this_error, Some(Unwrap(expected_state).position)>>
                     ELSE acc
         IN  ParadoxOfMissingIn(order, p, frame, entities, i + 1, next)

\* Player::paradox_level over the entities of order: Some(<<level, position>>)
\* or None
ParadoxLevelIn(order, p, frame, entities) ==
    IF ~IsSome(p.view_area) THEN None
    ELSE LET seen == ParadoxOfEntitiesIn(order, p, frame, entities, 1, <<None, None>>)
             all == ParadoxOfMissingIn(order, p, frame, entities, 1, seen)
         IN  IF IsSome(all[1]) /\ IsSome(all[2])
             THEN Some(<<Unwrap(all[1]), Unwrap(all[2])>>)
             ELSE None

\* The loops and paradox_level in the level of the Player specification
ParadoxOfEntities(p, frame, entities, i, acc) ==
    ParadoxOfEntitiesIn(EntityOrder, p, frame, entities, i, acc)
ParadoxOfMissing(p, frame, entities, i, acc) ==
    ParadoxOfMissingIn(EntityOrder, p, frame, entities, i, acc)
ParadoxLevel(p, frame, entities) == ParadoxLevelIn(EntityOrder, p, frame, entities)

\* Iterator::min_by over the paradox levels of the window, None below every
\* Some and the first of equals winning: None for an empty window, else
\* Some(the least element)
RECURSIVE MinByLevel(_, _, _)
MinByLevel(levels, i, best) ==
    IF i > Len(levels) THEN best
    ELSE LET a == Unwrap(best)
             b == levels[i]
             b_less == IF ~IsSome(b) THEN IsSome(a)
                       ELSE IsSome(a) /\ Unwrap(b)[1] < Unwrap(a)[1]
         IN  MinByLevel(levels, i + 1, IF b_less THEN Some(b) ELSE best)

\* A minimum that is the level of the first frame of the window
MinParadox_First(levels) ==
    IF levels = <<>> THEN None ELSE Some(levels[1])

MinParadox(levels) ==
    IF levels = <<>> THEN None ELSE MinByLevel(levels, 2, Some(levels[1]))

\* (paradox_level / CONFUSION_TIME) * UPDATE_DT and (1.0 / RECOVERY_TIME) * UPDATE_DT
ConfusionGain(level) == (level * CONFUSION_TIME[2]) \div (CONFUSION_TIME[1] * UPDATE_TPS)
ConfusionDecay == (ConfusionOne * RECOVERY_TIME[2]) \div (RECOVERY_TIME[1] * UPDATE_TPS)

\* The Active arm's loop over the entities in view: try_insert their visible
\* states at frame, from entity i of EntityOrder on
RECURSIVE RecordEnvironment(_, _, _, _)
RecordEnvironment(p, frame, entities, i) ==
    IF i > Len(EntityOrder) THEN p
    ELSE LET key == EntityOrder[i]
             entity == entities[key]
             history == IF IsSome(p.environment_history[key])
                        THEN Unwrap(p.environment_history[key])
                        ELSE <<>>
             inserted == TryInsert(history, frame, VisibleState(entity)).data
             next == IF entity.exists /\ IsWithinViewArea(entity, Unwrap(p.view_area))
                     THEN [p EXCEPT !.environment_history[key] = Some(inserted)]
                     ELSE p
         IN  RecordEnvironment(next, frame, entities, i + 1)

\* The Active arm of Player::update
UpdateActive(p, frame, entities) ==
    LET motion == (p.motion_input.output * Px(PlayerSpeed)) \div UPDATE_TPS
        moved == UpdateViewDirection(MoveAlongAxis(p, motion))
        recorded_self == [moved EXCEPT !.history =
                             TryInsert(moved.history, frame, GetHistoryEntry(moved)).data]
    IN  IF IsSome(recorded_self.view_area)
        THEN RecordEnvironment(recorded_self, frame, entities, 1)
        ELSE recorded_self

\* The frames of the window, frame - MAXIMUM_TEMPORAL_OFFSET computed without
\* overflow checks
WindowFrames(frame) ==
    RangeSeq(WrappingSub(frame, MAXIMUM_TEMPORAL_OFFSET),
             frame + MAXIMUM_TEMPORAL_OFFSET + 1)

\* The paradox levels of the frames of the window, in order
WindowLevels(p, frame, entities) ==
    [i \in DOMAIN WindowFrames(frame) |->
        ParadoxLevel(p, WindowFrames(frame)[i], entities)]

\* The let-else on the minimum: no paradox for an empty window or a least
\* element of None
ParadoxOfWindow(least) == IF IsSome(least) THEN Unwrap(least) ELSE None

\* A gain that is clamped to 1.0 at once, before the test for death
ConfusionChanged_ClampedGain(p, paradox) ==
    IF IsSome(paradox)
    THEN [p EXCEPT !.confusion = Clamp(@ + ConfusionGain(Unwrap(paradox)[1]),
                                       0, ConfusionOne),
                   !.paradox_position = paradox]
    ELSE [p EXCEPT !.confusion = @ - ConfusionDecay,
                   !.paradox_position = None]

\* if let Some(paradox) { confusion += ... } else { confusion -= ... }
ConfusionChanged(p, paradox) ==
    IF IsSome(paradox)
    THEN [p EXCEPT !.confusion = @ + ConfusionGain(Unwrap(paradox)[1]),
                   !.paradox_position = paradox]
    ELSE [p EXCEPT !.confusion = @ - ConfusionDecay,
                   !.paradox_position = None]

\* A death at confusion 1.0 already
DeadAboveOne_AtOne(p) ==
    IF p.confusion >= ConfusionOne THEN [p EXCEPT !.state = "Dead"] ELSE p

\* if self.confusion > 1.0 { self.state = Dead }
DeadAboveOne(p) ==
    IF p.confusion > ConfusionOne THEN [p EXCEPT !.state = "Dead"] ELSE p

\* The Recording arm of Player::update once the entry is restored: the
\* paradox levels of the window and what they do to confusion and state.
\* The result is the player before the final clamp.
UpdateConfusion(p, frame, entities) ==
    DeadAboveOne(ConfusionChanged(p,
        ParadoxOfWindow(MinParadox(WindowLevels(p, frame, entities)))))

\* Arms of which the Recording one decays confusion when the history has no
\* entry for the frame
UpdateArms_DecaysWithoutEntry(p, frame, entities, overflow_checks) ==
    LET entry == Get(p.history, frame)
        restored == UpdateViewDirection(
                        [p EXCEPT !.position = Unwrap(entry).position,
                                  !.mouse_position = Unwrap(entry).mouse_position])
    IN  CASE p.state = "Active" ->
               [player |-> UpdateActive(p, frame, entities), panicked |-> FALSE]
          [] p.state = "Recording" ->
               IF ~IsSome(entry)
               THEN [player |-> [p EXCEPT !.confusion = @ - ConfusionDecay],
                     panicked |-> FALSE]
               ELSE IF overflow_checks /\ frame < MAXIMUM_TEMPORAL_OFFSET
               THEN [player |-> restored, panicked |-> TRUE]
               ELSE [player |-> UpdateConfusion(restored, frame, entities),
                     panicked |-> FALSE]
          [] p.state = "Dead" ->
               [player |-> [p EXCEPT !.confusion = @ - ConfusionDecay],
                panicked |-> FALSE]

\* The arms of Player::update, up to the final clamp.  overflow_checks is how
\* the build treats frame - MAXIMUM_TEMPORAL_OFFSET below zero: a panic, or a
\* wrap.  The result is [player, panicked]; a panic leaves the player as the
\* arm had it by then.
UpdateArms(p, frame, entities, overflow_checks) ==
    LET entry == Get(p.history, frame)
        restored == UpdateViewDirection(
                        [p EXCEPT !.position = Unwrap(entry).position,
                                  !.mouse_position = Unwrap(entry).mouse_position])
    IN  CASE p.state = "Active" ->
               [player |-> UpdateActive(p, frame, entities), panicked |-> FALSE]
          [] p.state = "Recording" ->
               IF ~IsSome(entry)
               THEN [player |-> p, panicked |-> FALSE]
               ELSE IF overflow_checks /\ frame < MAXIMUM_TEMPORAL_OFFSET
               THEN [player |-> restored, panicked |-> TRUE]
               ELSE [player |-> UpdateConfusion(restored, frame, entities),
                     panicked |-> FALSE]
          [] p.state = "Dead" ->
               [player |-> [p EXCEPT !.confusion = @ - ConfusionDecay],
                panicked |-> FALSE]

\* A final clamp from above only
ClampConfusion_FromAbove(arms) ==
    [player |-> IF arms.panicked \/ arms.player.confusion <= ConfusionOne THEN arms.player
                ELSE [arms.player EXCEPT !.confusion = ConfusionOne],
     panicked |-> arms.panicked,
     unclamped |-> arms.player.confusion]

\* The final clamp of Player::update, which a panic does not reach:
\* [player, panicked, unclamped], unclamped being the confusion the clamp found
ClampConfusion(arms) ==
    [player |-> IF arms.panicked THEN arms.player
                ELSE [arms.player EXCEPT !.confusion = Clamp(@, 0, ConfusionOne)],
     panicked |-> arms.panicked,
     unclamped |-> arms.player.confusion]

\* Player::update
PlayerUpdate(p, frame, entities, overflow_checks) ==
    ClampConfusion(UpdateArms(p, frame, entities, overflow_checks))

\* Player::update_view_area; of the LightArea only its origin and the
\* direction of its angle range are kept
UpdateViewArea(p) ==
    IF p.state \in {"Active", "Recording"}
    THEN [p EXCEPT !.view_area =
             Some([origin |-> p.position, direction |-> p.view_direction])]
    ELSE [p EXCEPT !.view_area = None]

\* A travel_to_beginning that leaves the histories with the traveller
TravelToBeginning_KeepsHistory(self, past) ==
    IF past.state = "Active"
    THEN [self |-> self, past |-> [past EXCEPT !.state = "Recording"]]
    ELSE [self |-> self, past |-> past]

\* A travel_to_beginning that marks the traveller, not the past copy
TravelToBeginning_MarksSelf(self, past) ==
    IF past.state = "Active"
    THEN [self |-> [self EXCEPT !.state = "Recording"],
          past |-> [past EXCEPT !.history = self.history,
                                !.environment_history = self.environment_history]]
    ELSE [self |-> self, past |-> past]

\* Player::travel_to_beginning: [self, past] afterwards
TravelToBeginning(self, past) ==
    IF past.state = "Active"
    THEN [self |-> [self EXCEPT !.history = <<>>,
                                !.environment_history = [k \in EntityKeys |-> None]],
          past |-> [past EXCEPT !.state = "Recording",
                                !.history = self.history,
                                !.environment_history = self.environment_history]]
    ELSE [self |-> self, past |-> past]

(***************************************************************************)
(* The Level and Player specification: a level with one player and the     *)
(* entities of EntityOrder, stepped frame by frame; the player records     *)
(* while Active, an elevator sends it back to the beginning, and the copy  *)
(* in the soft reset state replays the recording.                          *)
(***************************************************************************)
MaxFrame == 10
MaxInputEvents == 2
MaxEntityChanges == 2
MaxTravels == 2
Keys == {"D"}
EntityPositions == {Px(-40), Px(20)}
EntityStart == [exists |-> TRUE, position |-> Px(-40), extra |-> 0, inView |-> TRUE]
ElevatorFrames == {3, MaxFrame - 1}
RecordFrames == 0..(MaxFrame + MAXIMUM_TEMPORAL_OFFSET)

\* Level after load_initial_entities, frame 0 not yet stepped
LevelLoaded ==
    /\ level_frame = 0
    /\ overflowChecks \in BOOLEAN
    /\ panicked = FALSE
    /\ player = PlayerDefault
    /\ initial = PlayerDefault
    /\ others = [k \in EntityKeys |-> EntityStart]
    /\ calls = <<>>
    /\ recorded = [f \in RecordFrames |-> None]
    /\ sights = [k \in EntityKeys |-> [f \in RecordFrames |-> None]]
    /\ inputEvents = 0
    /\ entityChanges = 0
    /\ travels = 0
    /\ clean = TRUE

\* What p perceives of each entity through its view area: the visible state
\* of an entity within it
Observed(p, entities) ==
    [k \in EntityKeys |->
        IF /\ IsSome(p.view_area)
           /\ entities[k].exists
           /\ IsWithinViewArea(entities[k], Unwrap(p.view_area))
        THEN Some(VisibleState(entities[k])) ELSE None]

\* What Player::update of p at frame, the others being entities, is
\* remembered by: the state and confusion before and after, the confusion the
\* final clamp found, whether p had a history entry and a view area, what p
\* could see of each entity, and where the call left p
CallOfUpdate(p, frame, entities, result) ==
    [op |-> "update", frame |-> frame,
     pre |-> p.state, post |-> result.player.state,
     confusion_before |-> p.confusion,
     unclamped |-> result.unclamped,
     confusion_after |-> result.player.confusion,
     entry |-> IsSome(Get(p.history, frame)),
     view |-> IsSome(p.view_area),
     observed |-> Observed(p, entities),
     position |-> result.player.position,
     view_direction |-> result.player.view_direction,
     panicked |-> result.panicked]

\* What travel_to_beginning is remembered by
CallOfTravel(self, past, result) ==
    [op |-> "travel", pre |-> past.state, post |-> result.past.state,
     self_pre |-> self.state, self_post |-> result.self.state,
     took |-> result.past.history = self.history /\ result.self.history = <<>>]

\* The reference maps after Player::update of p at frame
RecordedAfter(p, frame, result) ==
    IF p.state = "Active"
    THEN [recorded EXCEPT ![frame] = Some(F32(result.player.position))]
    ELSE recorded
SightsAfter(p, frame, entities) ==
    IF p.state = "Active" /\ IsSome(p.view_area)
    THEN [k \in EntityKeys |-> [sights[k] EXCEPT ![frame] = Observed(p, entities)[k]]]
    ELSE sights

\* Whether the replay stays one in which nothing observed differs from the
\* recording, after Player::update of p at frame
CleanAfter(before, p, frame, entities) ==
    IF p.state = "Recording"
    THEN before /\ \A k \in EntityKeys : Observed(p, entities)[k] = sights[k][frame]
    ELSE before

\* The other entities after their updates of one frame, and how many of
\* their fields changed
EntitiesAfter(entities, position, inView) ==
    [k \in EntityKeys |-> [entities[k] EXCEPT !.position = position, !.inView = inView]]
ChangesBetween(before, after) ==
    Cardinality({k \in EntityKeys : before[k].position # after[k].position})
    + Cardinality({k \in EntityKeys : before[k].inView # after[k].inView})

\* Level::key_down and key_up reaching the player, an input reader while Active
KeyDown(key) ==
    /\ ~panicked
    /\ inputEvents < MaxInputEvents
    /\ player.state = "Active"
    /\ AxialKeyDown(player.motion_input, key) # player.motion_input
    /\ player' = [player EXCEPT !.motion_input = AxialKeyDown(@, key)]
    /\ inputEvents' = inputEvents + 1
    /\ UNCHANGED <<level_frame, overflowChecks, panicked, initial, others, calls,
                   recorded, sights, clean, entityChanges, travels>>
    /\ UNCHANGED otherThanPlayer

KeyUp(key) ==
    /\ ~panicked
    /\ inputEvents < MaxInputEvents
    /\ player.state = "Active"
    /\ AxialKeyUp(player.motion_input, key) # player.motion_input
    /\ player' = [player EXCEPT !.motion_input = AxialKeyUp(@, key)]
    /\ inputEvents' = inputEvents + 1
    /\ UNCHANGED <<level_frame, overflowChecks, panicked, initial, others, calls,
                   recorded, sights, clean, entityChanges, travels>>
    /\ UNCHANGED otherThanPlayer

\* The end of a Level::update_game with no game action, result being what
\* Player::update returned: update_view_area and the frame counter, which a
\* panic does not reach
UpdateGameDone(entities, result) ==
    /\ others' = entities
    /\ entityChanges' = entityChanges + ChangesBetween(others, entities)
    /\ panicked' = result.panicked
    /\ player' = IF result.panicked THEN result.player
                 ELSE UpdateViewArea(result.player)
    /\ level_frame' = IF result.panicked THEN level_frame ELSE level_frame + 1
    /\ calls' = <<CallOfUpdate(player, level_frame, entities, result)>>
    /\ recorded' = RecordedAfter(player, level_frame, result)
    /\ sights' = SightsAfter(player, level_frame, entities)
    /\ clean' = CleanAfter(clean, player, level_frame, entities)
    /\ UNCHANGED <<overflowChecks, initial, inputEvents, travels>>
    /\ UNCHANGED otherThanPlayer

\* The entity updates of Level::update_game, the player's among them
UpdateEntities(entities) ==
    /\ entityChanges + ChangesBetween(others, entities) <= MaxEntityChanges
    /\ UpdateGameDone(entities,
                      PlayerUpdate(player, level_frame, entities, overflowChecks))

\* Level::update_game with no game action: the other entities update, then
\* the player, then update_view_area, then the frame counter.  The mouse
\* stays where Level::mouse_position starts, so the mouse_moved of
\* step_at_level_start changes nothing.
UpdateGame(position, inView) ==
    /\ ~panicked
    /\ level_frame < MaxFrame
    /\ UpdateEntities(EntitiesAfter(others, position, inView))

\* The other entities of the soft reset state; what the model's view oracle
\* says of them is no part of it
LoadedEntities ==
    [k \in EntityKeys |-> [EntityStart EXCEPT !.inView = others[k].inView]]

\* The end of a Level::update_game with a soft reset: first the update of the
\* frame, travel the travel_to_beginning, second the update of frame 0
SoftResetDone(entities, first, travel, second) ==
    /\ travels' = travels + 1
    /\ initial' = travel.past
    /\ others' = entities
    /\ entityChanges' = entityChanges + ChangesBetween(LoadedEntities, entities)
    /\ panicked' = second.panicked
    /\ player' = IF second.panicked THEN second.player
                 ELSE UpdateViewArea(second.player)
    /\ level_frame' = IF second.panicked THEN 0 ELSE 1
    /\ calls' = <<CallOfUpdate(player, level_frame, others, first),
                  CallOfTravel(first.player, initial, travel),
                  CallOfUpdate(travel.past, 0, entities, second)>>
    /\ recorded' = RecordedAfter(player, level_frame, first)
    /\ sights' = SightsAfter(player, level_frame, others)
    /\ clean' = CleanAfter(TRUE, travel.past, 0, entities)
    /\ UNCHANGED <<overflowChecks, inputEvents>>
    /\ UNCHANGED otherThanPlayer

\* Level::step_at_level_start on the entities load_initial_entities cloned
\* from the soft reset state: the update of frame 0
StepAtLevelStart(entities, first, travel) ==
    SoftResetDone(entities, first, travel,
                  PlayerUpdate(travel.past, 0, entities, overflowChecks))

\* The elevator's update: travel_to_beginning of its occupant on the copy in
\* the soft reset state, which then replaces the entities
ElevatorTravel(entities, first) ==
    /\ ~first.panicked
    /\ StepAtLevelStart(entities, first, TravelToBeginning(first.player, initial))

\* Level::update_game in which an elevator holding the player sends its
\* occupants back (elevator.rs: travel_to_beginning, GameAction::SoftReset):
\* the updates of the frame, then load_initial_entities and
\* step_at_level_start, which is the update of frame 0
UpdateGameSoftReset(position, inView) ==
    /\ ~panicked
    /\ level_frame < MaxFrame
    /\ travels < MaxTravels
    /\ level_frame \in ElevatorFrames
    /\ entityChanges + ChangesBetween(LoadedEntities,
                           EntitiesAfter(LoadedEntities, position, inView))
          <= MaxEntityChanges
    /\ ElevatorTravel(EntitiesAfter(LoadedEntities, position, inView),
                      PlayerUpdate(player, level_frame, others, overflowChecks))

PlayerNext ==
    \/ \E key \in Keys : KeyDown(key)
    \/ \E key \in Keys : KeyUp(key)
    \/ \E position \in EntityPositions, inView \in BOOLEAN : UpdateGame(position, inView)
    \/ \E position \in EntityPositions, inView \in BOOLEAN :
          UpdateGameSoftReset(position, inView)

(***************************************************************************)
(* raycast (level/light_grid.rs).  Lengths are in units of 1/120 pixel.  A *)
(* direction is an integer vector <<a, b>> that stands for the unit vector *)
(* <<a, b>> / |<<a, b>>|, with |a| and |b| at most 6, so that every point  *)
(* where the ray crosses a grid line is a whole number of units and the    *)
(* arithmetic of the code is exact.  EPSILON (1e-6 pixel) is below the     *)
(* resolution of these values: two crossing times that differ, differ by   *)
(* more than EPSILON, and a coordinate within EPSILON of a grid line is on *)
(* it.  The point a call returns is [base, along, distance]: the point     *)
(* base + distance * along / |along|.  The collision function is           *)
(* [inside, outside]: a map from the cells of a region to whether each     *)
(* blocks, and the answer for every other cell.                            *)
(***************************************************************************)
RayUnit == 120
EpsilonInverse == 1000000
Signum(v) == IF v < 0 THEN -1 ELSE 1
RayFloor(v) == v \div RayUnit
RayCeil(v) == -((-v) \div RayUnit)
RayRound(v) ==
    IF v >= 0 THEN (2 * v + RayUnit) \div (2 * RayUnit)
    ELSE -((RayUnit - 2 * v) \div (2 * RayUnit))

\* |a| / |<<a, b>>| <= EPSILON, and |round(v) - v| <= EPSILON
NearZero(a, b) == Abs(a) * EpsilonInverse <= Abs(b)
NearGridLine(v) == Abs(RayRound(v) * RayUnit - v) * EpsilonInverse <= RayUnit

\* The closure passed as `function`
Blocked(function, index) ==
    IF index \in DOMAIN function.inside THEN function.inside[index] ELSE function.outside

\* CornerDirection::new
CornerDirectionNew(concave, south, west) ==
    CASE ~concave /\ ~south /\ ~west -> "ConvexNorthEast"
      [] ~concave /\ ~south /\ west -> "ConvexNorthWest"
      [] ~concave /\ south /\ ~west -> "ConvexSouthEast"
      [] ~concave /\ south /\ west -> "ConvexSouthWest"
      [] concave /\ ~south /\ ~west -> "ConcaveNorthEast"
      [] concave /\ ~south /\ west -> "ConcaveNorthWest"
      [] concave /\ south /\ ~west -> "ConcaveSouthEast"
      [] concave /\ south /\ west -> "ConcaveSouthWest"

\* RayCollisionNormal::Wall and RayCollisionNormal::Corner
Wall(direction) == <<"Wall", direction>>
Corner(direction, flag) == <<"Corner", direction, flag>>

move_in_direction(location, direction) ==
    IF direction > 0 THEN (RayFloor(location) + 1) * RayUnit
    ELSE (RayCeil(location) - 1) * RayUnit

index_of_location(location, direction) ==
    [i \in 1..2 |-> IF direction[i] >= 0 THEN RayFloor(location[i])
                    ELSE RayCeil(location[i]) - 1]

\* The numerator of time_x and of time_y: the way to the next grid line
\* along the signed axis, (1.0 - (location * signum).rem_euclid(1.0))
ToNextLine(location, direction) == RayUnit - ((location * Signum(direction)) % RayUnit)

\* time_x.partial_cmp(&time_y) after the EPSILON adjustment of time_x; a zero
\* component of the direction makes its time infinite
CompareTimes(location, direction) ==
    LET x == ToNextLine(location[1], direction[1]) * Abs(direction[2])
        y == ToNextLine(location[2], direction[2]) * Abs(direction[1])
    IN  IF x < y THEN "Less" ELSE IF x = y THEN "Equal" ELSE "Greater"

\* The match on the ordering: the location after the step
StepLocation(location, direction, order) ==
    CASE order = "Less" ->
             <<move_in_direction(location[1], direction[1]),
               location[2] + (ToNextLine(location[1], direction[1]) * direction[2])
                                 \div Abs(direction[1])>>
      [] order = "Equal" ->
             <<move_in_direction(location[1], direction[1]),
               move_in_direction(location[2], direction[2])>>
      [] order = "Greater" ->
             <<location[1] + (ToNextLine(location[2], direction[2]) * direction[1])
                                 \div Abs(direction[2]),
               move_in_direction(location[2], direction[2])>>

\* (start - location).magnitude_squared() >= (max_distance - EPSILON).powi(2):
\* both squares are whole numbers of units but for the EPSILON
MaxDistanceReached(start, location, max_distance) ==
    LET squared == (start[1] - location[1]) * (start[1] - location[1])
                   + (start[2] - location[2]) * (start[2] - location[2])
    IN  IF max_distance > 0 THEN squared >= max_distance * max_distance
        ELSE squared >= max_distance * max_distance + 1

PointAt(location) == [base |-> location, along |-> <<0, 0>>, distance |-> 0]

\* A return that gives the last location in place of the capped point
MaxDistancePoint_Location(ray, location) == PointAt(location)

\* start + direction.into_inner() * max_distance
MaxDistancePoint(ray, location) ==
    [base |-> ray.start, along |-> ray.direction, distance |-> ray.max_distance]

\* The normal of the return under `if function(location, index)`
HitNormal(ray, order, side_a_now, side_b_now, side_before) ==
    LET dir_sign_x == Signum(ray.direction[1])
        dir_sign_y == Signum(ray.direction[2])
        x_direction == IF order = "Equal" THEN side_b_now ELSE order = "Less"
    IN  IF order = "Equal" /\ side_a_now = side_b_now
        THEN Corner(CornerDirectionNew(side_a_now, dir_sign_y < 0, dir_sign_x > 0),
                    ~side_a_now \/ ~side_before)
        ELSE IF x_direction
        THEN Wall(IF dir_sign_x > 0 THEN "West" ELSE "East")
        ELSE Wall(IF dir_sign_y > 0 THEN "North" ELSE "South")

\* The normal of the return under `if side_a && side_b`
SidesNormal(ray, side_a_now, side_b_now) ==
    LET dir_sign_x == Signum(ray.direction[1])
        dir_sign_y == Signum(ray.direction[2])
    IN  CASE ray.on_y_edge -> Wall(IF dir_sign_x > 0 THEN "West" ELSE "East")
          [] ~ray.on_y_edge /\ ray.on_x_edge ->
                 Wall(IF dir_sign_y > 0 THEN "North" ELSE "South")
          [] ~ray.on_y_edge /\ ~ray.on_x_edge /\ side_a_now /\ side_b_now ->
                 Corner(CornerDirectionNew(TRUE, dir_sign_y < 0, dir_sign_x > 0), FALSE)
          [] OTHER ->
                 Corner(CornerDirectionNew(FALSE,
                                           IF dir_sign_x = 1 THEN ~side_a_now ELSE side_a_now,
                                           IF dir_sign_y = 1 THEN ~side_a_now ELSE side_a_now),
                        TRUE)

\* An edge test that stops as soon as either side is blocked
SidesBlocked_Either(side_a, side_b) == side_a \/ side_b

\* `if side_a && side_b`
SidesBlocked(side_a, side_b) == side_a /\ side_b

RECURSIVE RaycastLoop(_, _, _, _)

\* The end of an iteration: the return under `if side_a && side_b`, or the
\* next iteration
RaycastSides(ray, location, side_a, side_b, side_a_now, side_b_now) ==
    IF SidesBlocked(side_a, side_b)
    THEN [point |-> PointAt(location), normal |-> Some(SidesNormal(ray, side_a_now, side_b_now))]
    ELSE RaycastLoop(ray, location, side_a, side_b)

\* The branch of a ray along a grid line
RaycastOnEdge(ray, location, index, side_a, side_b) ==
    RaycastSides(ray, location,
                 side_a \/ Blocked(ray.function,
                                   IF ray.on_x_edge THEN <<index[1] - 1, index[2]>>
                                   ELSE <<index[1], index[2] - 1>>),
                 side_b \/ Blocked(ray.function, index),
                 FALSE, FALSE)

\* A branch that forgets what it read of the two cells beside a corner
RaycastOffEdge_SidesForgotten(ray, location, index, order, side_a, side_b, side_a_now, side_b_now) ==
    IF Blocked(ray.function, index)
    THEN [point |-> PointAt(location),
          normal |-> Some(HitNormal(ray, order, side_a_now, side_b_now, side_a \/ side_b))]
    ELSE RaycastSides(ray, location, side_a, side_b, side_a_now, side_b_now)

\* The branch of any other ray, with side_a_now and side_b_now read
RaycastOffEdge(ray, location, index, order, side_a, side_b, side_a_now, side_b_now) ==
    IF Blocked(ray.function, index)
    THEN [point |-> PointAt(location),
          normal |-> Some(HitNormal(ray, order, side_a_now, side_b_now, side_a \/ side_b))]
    ELSE RaycastSides(ray, location, side_a \/ side_a_now, side_b \/ side_b_now,
                      side_a_now, side_b_now)

\* An iteration from the distance test on: location is the stepped location
RaycastArrive(ray, location, index, order, side_a, side_b) ==
    IF MaxDistanceReached(ray.start, location, ray.max_distance)
    THEN [point |-> MaxDistancePoint(ray, location), normal |-> None]
    ELSE IF ray.on_x_edge \/ ray.on_y_edge
    THEN RaycastOnEdge(ray, location, index, side_a, side_b)
    ELSE RaycastOffEdge(ray, location, index, order, side_a, side_b,
                        order = "Equal"
                            /\ Blocked(ray.function,
                                       <<index[1] - Signum(ray.direction[1]), index[2]>>),
                        order = "Equal"
                            /\ Blocked(ray.function,
                                       <<index[1], index[2] - Signum(ray.direction[2])>>))

RaycastStep(ray, location, order, side_a, side_b) ==
    RaycastArrive(ray, location, index_of_location(location, ray.direction), order,
                  side_a, side_b)

\* One iteration of the loop of raycast
RaycastLoop(ray, location, side_a, side_b) ==
    RaycastStep(ray, StepLocation(location, ray.direction, CompareTimes(location, ray.direction)),
                CompareTimes(location, ray.direction), side_a, side_b)

\* raycast from the first collision tests on: ray holds the snapped
\* direction and the edge flags, index the index of the start
RaycastStart(ray, location, index) ==
    IF \/ ray.on_x_edge /\ Blocked(ray.function, <<index[1] - 1, index[2]>>)
       \/ ~ray.on_x_edge /\ ray.on_y_edge /\ Blocked(ray.function, <<index[1], index[2] - 1>>)
       \/ Blocked(ray.function, index)
    THEN [point |-> PointAt(location), normal |-> None]
    ELSE RaycastLoop(ray, location, FALSE, FALSE)

\* The direction after the snap to an axis and the two edge flags it sets
SnapDirection(direction) ==
    IF NearZero(direction[1], direction[2])
    THEN [direction |-> <<0, Signum(direction[2])>>, on_x_edge |-> TRUE, on_y_edge |-> FALSE]
    ELSE IF NearZero(direction[2], direction[1])
    THEN [direction |-> <<Signum(direction[1]), 0>>, on_x_edge |-> FALSE, on_y_edge |-> TRUE]
    ELSE [direction |-> direction, on_x_edge |-> FALSE, on_y_edge |-> FALSE]

\* The location after the snap to the grid lines
SnapLocation(location) ==
    [i \in 1..2 |-> IF NearGridLine(location[i]) THEN RayRound(location[i]) * RayUnit
                    ELSE location[i]]

RaycastSnapped(function, start, max_distance, snapped, index) ==
    RaycastStart([function |-> function, start |-> start, max_distance |-> max_distance,
                  direction |-> snapped.direction,
                  on_x_edge |-> snapped.on_x_edge /\ NearGridLine(start[1]),
                  on_y_edge |-> snapped.on_y_edge /\ NearGridLine(start[2])],
                 SnapLocation(start), index)

\* raycast: [point, normal]
Raycast(function, start, direction, max_distance) ==
    RaycastSnapped(function, start, max_distance, SnapDirection(direction),
                   index_of_location(start, direction))

(***************************************************************************)
(* LightGrid::trace_light_from (level/light_grid.rs).  An offset is        *)
(* [vec, along, distance]: the vector vec + distance * along / |along|,    *)
(* where one of vec and distance is zero.  A direction (an AngleRange's    *)
(* left and right, the reference of the sort) is an integer vector that    *)
(* stands for its unit vector.  The origins are lattice points and the     *)
(* corners are within a few pixels of them, so that two directions that    *)
(* differ, differ by far more than the tolerances of 1e-6 in the code:     *)
(* those comparisons are exact here.                                       *)
(***************************************************************************)
Perp(a, b) == a[1] * b[2] - a[2] * b[1]
Dot(a, b) == a[1] * b[1] + a[2] * b[2]
Negated(v) == <<-v[1], -v[2]>>

RECURSIVE Gcd(_, _)
Gcd(a, b) == IF b = 0 THEN a ELSE Gcd(b, a % b)

\* The shortest integer vector of the direction of v
Reduced(v) ==
    IF v = <<0, 0>> THEN v
    ELSE <<v[1] \div Gcd(Abs(v[1]), Abs(v[2])), v[2] \div Gcd(Abs(v[1]), Abs(v[2]))>>

\* CornerDirection::is_concave, is_south and is_west
IsConcave(d) ==
    d \in {"ConcaveNorthEast", "ConcaveNorthWest", "ConcaveSouthEast", "ConcaveSouthWest"}
IsSouth(d) ==
    d \in {"ConvexSouthEast", "ConvexSouthWest", "ConcaveSouthEast", "ConcaveSouthWest"}
IsWest(d) ==
    d \in {"ConvexNorthWest", "ConvexSouthWest", "ConcaveNorthWest", "ConcaveSouthWest"}

\* CornerDirection::filter_offsets: <<horizontal_ok, vertical_ok>>
FilterOffsets(d, offset) ==
    <<IF IsWest(d) THEN offset[1] <= 0 ELSE offset[1] >= 0,
      IF IsSouth(d) THEN offset[2] >= 0 ELSE offset[2] <= 0>>

\* CornerDirection::contains_offset and contains_offset_strict
ContainsOffset(d, offset) ==
    IF IsConcave(d) THEN FilterOffsets(d, offset)[1] /\ FilterOffsets(d, offset)[2]
    ELSE FilterOffsets(d, offset)[1] \/ FilterOffsets(d, offset)[2]
ContainsOffsetStrict(d, offset) ==
    FilterOffsets(d, offset)[1] /\ FilterOffsets(d, offset)[2]

\* CornerDirection::is_offset_to_left
IsOffsetToLeft(d, offset) ==
    CASE IsSouth(d) /\ IsWest(d) -> offset[1] >= 0 /\ offset[2] >= 0
      [] IsSouth(d) /\ ~IsWest(d) -> offset[1] >= 0 /\ offset[2] <= 0
      [] ~IsSouth(d) /\ IsWest(d) -> offset[1] <= 0 /\ offset[2] >= 0
      [] ~IsSouth(d) /\ ~IsWest(d) -> offset[1] <= 0 /\ offset[2] <= 0

\* CornerDirection::is_on_left_edge, is_on_right_edge and is_on_edge
IsOnLeftEdge(d, offset) ==
    CASE IsSouth(d) /\ IsWest(d) -> offset[2] >= 0 /\ offset[1] = 0
      [] IsSouth(d) /\ ~IsWest(d) -> offset[1] >= 0 /\ offset[2] = 0
      [] ~IsSouth(d) /\ IsWest(d) -> offset[1] <= 0 /\ offset[2] = 0
      [] ~IsSouth(d) /\ ~IsWest(d) -> offset[2] <= 0 /\ offset[1] = 0
IsOnRightEdge(d, offset) ==
    CASE IsSouth(d) /\ IsWest(d) -> offset[1] <= 0 /\ offset[2] = 0
      [] IsSouth(d) /\ ~IsWest(d) -> offset[2] >= 0 /\ offset[1] = 0
      [] ~IsSouth(d) /\ IsWest(d) -> offset[2] <= 0 /\ offset[1] = 0
      [] ~IsSouth(d) /\ ~IsWest(d) -> offset[1] >= 0 /\ offset[2] = 0
IsOnEdge(d, offset) == IsOnLeftEdge(d, offset) \/ IsOnRightEdge(d, offset)

\* A corner of which the ray that ends at it is never left out
ShouldSkip_Never(d, offset) == FALSE

\* CornerDirection::should_skip
ShouldSkip(d, offset) ==
    CASE IsSouth(d) /\ IsWest(d) ->
             (offset[1] >= 0 /\ offset[2] = 0) \/ (offset[2] <= 0 /\ offset[1] = 0)
      [] IsSouth(d) /\ ~IsWest(d) ->
             (offset[1] <= 0 /\ offset[2] = 0) \/ (offset[2] <= 0 /\ offset[1] = 0)
      [] ~IsSouth(d) /\ IsWest(d) ->
             (offset[1] >= 0 /\ offset[2] = 0) \/ (offset[2] >= 0 /\ offset[1] = 0)
      [] ~IsSouth(d) /\ ~IsWest(d) ->
             (offset[1] <= 0 /\ offset[2] = 0) \/ (offset[2] >= 0 /\ offset[1] = 0)

\* AngleRange::contains_offset
RangeContainsOffset(range, offset) ==
    CASE Perp(range.left, range.right) < 0 ->
             Perp(range.left, offset) >= 0 \/ Perp(range.right, offset) <= 0
      [] Perp(range.left, range.right) = 0 -> Perp(range.left, offset) >= 0
      [] Perp(range.left, range.right) > 0 ->
             Perp(range.left, offset) >= 0 /\ Perp(range.right, offset) <= 0

\* Ray::new without the magnitude, which MagnitudeSquared derives, and the
\* offset finish - origin of a raycast
Ray(offset, partition, collision) ==
    [offset |-> offset, partition |-> partition, collision |-> collision]
ExactOffset(v) == [vec |-> v, along |-> <<0, 0>>, distance |-> 0]
OffsetOf(point, origin) ==
    [vec |-> <<point.base[1] - origin[1], point.base[2] - origin[2]>>,
     along |-> point.along, distance |-> point.distance]
OffsetDirection(offset) ==
    IF offset.distance # 0 THEN Reduced(offset.along) ELSE Reduced(offset.vec)
MagnitudeSquared(offset) ==
    IF offset.distance # 0 THEN offset.distance * offset.distance
    ELSE Dot(offset.vec, offset.vec)

\* collision_function of trace_light_from
LightFunction(g) ==
    [inside |-> [c \in Cells(g.bounds) |-> BlocksLight(TileGridIndex(g, c, PixelEmpty))],
     outside |-> BlocksLight(PixelEmpty)]

\* LightGrid::MAXIMUM_RAY_RANGE, 2048 pixels in the source, at the scale of
\* the grids of the specification; and the four directions of a trace
\* without a range, (1, PI) and its quarter turns in the source, with 3 in
\* the place of PI
RayRange == 240
SentinelDirections == <<<<1, 3>>, <<-3, 1>>, <<-1, -3>>, <<3, -1>>>>

RayOfCast(result, origin, partition) ==
    Ray(OffsetOf(result.point, origin), partition, result.normal)

\* The rays pushed before the loop over the corners
SeedRays(function, origin, range) ==
    IF IsSome(range)
    THEN <<RayOfCast(Raycast(function, origin, Unwrap(range).left, RayRange),
                     origin, "RightEdge"),
           RayOfCast(Raycast(function, origin, Unwrap(range).right, RayRange),
                     origin, "LeftEdge")>>
    ELSE [k \in 1..4 |->
             RayOfCast(Raycast(function, origin, SentinelDirections[k], RayRange),
                       origin, "None")]

\* The partition of the ray that ends at a corner
CornerPartition(d, toOrigin, ray_continues) ==
    IF IsOnEdge(d, toOrigin)
    THEN (IF (~IsConcave(d)) # IsOnLeftEdge(d, toOrigin) THEN "Right" ELSE "Left")
    ELSE IF ray_continues
    THEN (IF IsOffsetToLeft(d, toOrigin) THEN "Left" ELSE "Right")
    ELSE "None"

\* A corner that is never skipped for the length of the ray cast at it
Occluded_Never(finish, offset_to_corner) == FALSE

\* (finish - area.origin).magnitude_squared()
\*     < offset_to_corner.magnitude_squared() - 1e-3
Occluded(finish, offset_to_corner) ==
    MagnitudeSquared(finish) + (RayUnit * RayUnit) \div 1000
        < Dot(offset_to_corner, offset_to_corner)

\* The body of the loop over the corners from the raycast on
CornerRaysOfCast(origin, d, offset_to_corner, result, ray_continues) ==
    IF Occluded(OffsetOf(result.point, origin), offset_to_corner) THEN <<>>
    ELSE (IF ShouldSkip(d, Negated(offset_to_corner)) THEN <<>>
          ELSE <<Ray(ExactOffset(offset_to_corner),
                     CornerPartition(d, Negated(offset_to_corner), ray_continues),
                     IF ray_continues THEN Some(Corner(d, TRUE)) ELSE result.normal)>>)
         \o (IF ray_continues
             THEN <<RayOfCast(result, origin,
                              IF IsOffsetToLeft(d, Negated(offset_to_corner))
                              THEN "Right" ELSE "Left")>>
             ELSE <<>>)

\* The body of the loop over the corners: the rays one corner pushes
CornerRays(function, origin, range, d, offset_to_corner) ==
    IF ~(/\ ContainsOffset(d, Negated(offset_to_corner))
         /\ (IsSome(range) => RangeContainsOffset(Unwrap(range), offset_to_corner)))
    THEN <<>>
    ELSE IF offset_to_corner = <<0, 0>> THEN <<>>
    ELSE CornerRaysOfCast(origin, d, offset_to_corner,
                          Raycast(function, origin, Reduced(offset_to_corner), RayRange),
                          ~(IsConcave(d) \/ ContainsOffsetStrict(d, Negated(offset_to_corner))))

\* The loop over the corners, from the k-th on
RECURSIVE RaysOfCorners(_, _, _, _, _)
RaysOfCorners(function, origin, range, cornerList, k) ==
    IF k > Len(cornerList) THEN <<>>
    ELSE CornerRays(function, origin, range, cornerList[k].direction,
                    <<cornerList[k].location[1] * RayUnit - origin[1],
                      cornerList[k].location[2] * RayUnit - origin[2]>>)
         \o RaysOfCorners(function, origin, range, cornerList, k + 1)

\* counter_clockwise_cos_angle as [nan, class, num, den]: the value
\* num / sqrt(den) / |reference|, plus 3.0 in class 1; 0.0 / 0.0 is a NaN
CosAngleKey(direction, reference) ==
    IF direction = <<0, 0>> \/ reference = <<0, 0>>
    THEN [nan |-> TRUE, class |-> 0, num |-> 0, den |-> 1]
    ELSE IF Perp(reference, direction) >= 0
    THEN [nan |-> FALSE, class |-> 0, num |-> -Dot(direction, reference),
          den |-> Dot(direction, direction)]
    ELSE [nan |-> FALSE, class |-> 1, num |-> Dot(direction, reference),
          den |-> Dot(direction, direction)]

\* The order of a.num / sqrt(a.den) and b.num / sqrt(b.den)
CompareSurds(a, b) ==
    LET left == (IF a.num < 0 THEN -1 ELSE 1) * a.num * a.num * b.den
        right == (IF b.num < 0 THEN -1 ELSE 1) * b.num * b.num * a.den
    IN  IF left < right THEN "Less" ELSE IF left = right THEN "Equal" ELSE "Greater"

\* compare_ray_angles on two keys: total_cmp puts a NaN below every number
\* or above every number by its sign, which the build decides (nanLow)
CompareKeys(a, b, nanLow) ==
    CASE a.nan /\ b.nan -> "Equal"
      [] a.nan /\ ~b.nan -> IF nanLow THEN "Less" ELSE "Greater"
      [] ~a.nan /\ b.nan -> IF nanLow THEN "Greater" ELSE "Less"
      [] ~a.nan /\ ~b.nan /\ a.class < b.class -> "Less"
      [] ~a.nan /\ ~b.nan /\ a.class > b.class -> "Greater"
      [] OTHER -> CompareSurds(a, b)

\* compare_ray_angles
CompareRayAngles(lhs, rhs, reference, nanLow) ==
    CompareKeys(CosAngleKey(OffsetDirection(lhs.offset), reference),
                CosAngleKey(OffsetDirection(rhs.offset), reference), nanLow)

\* sort_unstable_by, as an insertion sort: rays that compare equal end in
\* the order they were pushed in or in the reverse of it (tiesReversed)
RECURSIVE InsertRay(_, _, _, _, _)
InsertRay(sorted, ray, reference, u, k) ==
    IF k > Len(sorted)
       \/ CompareRayAngles(sorted[k], ray, reference, u.nanLow) = "Greater"
       \/ (u.tiesReversed /\ CompareRayAngles(sorted[k], ray, reference, u.nanLow) = "Equal")
    THEN SubSeq(sorted, 1, k - 1) \o <<ray>> \o SubSeq(sorted, k, Len(sorted))
    ELSE InsertRay(sorted, ray, reference, u, k + 1)
RECURSIVE SortRays(_, _, _, _)
SortRays(rays, reference, u, k) ==
    IF k = 0 THEN <<>>
    ELSE InsertRay(SortRays(rays, reference, u, k - 1), rays[k], reference, u, 1)

\* From<Ray> for StoredRay
StoredRay(ray) == [offset |-> ray.offset, collision |-> ray.collision]

\* RayPartition's derived order
PartitionRank(partition) ==
    CASE partition = "Left" -> 0
      [] partition = "LeftEdge" -> 1
      [] partition = "None" -> 2
      [] partition = "RightEdge" -> 3
      [] partition = "Right" -> 4

\* The loop that finds the shortest and the longest ray of a chunk, from
\* its k-th ray on
RECURSIVE Extremes(_, _, _, _)
Extremes(chunk, k, shortest, longest) ==
    IF k > Len(chunk) THEN [shortest |-> shortest, longest |-> longest]
    ELSE IF MagnitudeSquared(chunk[k].offset) < MagnitudeSquared(shortest.offset)
    THEN Extremes(chunk, k + 1, chunk[k], longest)
    ELSE IF MagnitudeSquared(chunk[k].offset) > MagnitudeSquared(longest.offset)
    THEN Extremes(chunk, k + 1, shortest, chunk[k])
    ELSE Extremes(chunk, k + 1, shortest, longest)

\* What a chunk of two rays or more adds to area.rays
RaysOfExtremes(e) ==
    IF MagnitudeSquared(e.shortest.offset) = MagnitudeSquared(e.longest.offset)
    THEN <<StoredRay(e.shortest)>>
    ELSE IF PartitionRank(e.shortest.partition) < PartitionRank(e.longest.partition)
    THEN <<StoredRay(e.longest), StoredRay(e.shortest)>>
    ELSE <<StoredRay(e.shortest), StoredRay(e.longest)>>

\* A chunk that adds its first ray alone
RaysOfChunk_First(chunk) == <<StoredRay(chunk[1])>>

\* What a chunk adds to area.rays
RaysOfChunk(chunk) ==
    IF Len(chunk) <= 1 THEN <<StoredRay(chunk[1])>>
    ELSE RaysOfExtremes(Extremes(chunk, 2, chunk[1], chunk[1]))

\* The end of the chunk that starts at the k-th ray (chunk_by)
RECURSIVE ChunkEnd(_, _, _, _)
ChunkEnd(sorted, reference, nanLow, k) ==
    IF k < Len(sorted) /\ CompareRayAngles(sorted[k], sorted[k + 1], reference, nanLow) = "Equal"
    THEN ChunkEnd(sorted, reference, nanLow, k + 1)
    ELSE k

\* The loop over the chunks, from the chunk at k on
RECURSIVE RaysOfChunks(_, _, _, _)
RaysOfChunksFrom(sorted, reference, nanLow, k, end) ==
    RaysOfChunk(SubSeq(sorted, k, end)) \o RaysOfChunks(sorted, reference, nanLow, end + 1)
RaysOfChunks(sorted, reference, nanLow, k) ==
    IF k > Len(sorted) THEN <<>>
    ELSE RaysOfChunksFrom(sorted, reference, nanLow, k, ChunkEnd(sorted, reference, nanLow, k))

\* trace_light_from from the sort on
AreaOfRays(origin, range, unorganized_rays, reference, u) ==
    [origin |-> origin,
     rays |-> RaysOfChunks(SortRays(unorganized_rays, reference, u, Len(unorganized_rays)),
                           reference, u.nanLow, 1),
     range |-> range]

\* trace_light_from after the corners are up to date
AreaOfUnorganized(origin, range, unorganized_rays, u) ==
    AreaOfRays(origin, range, unorganized_rays,
               IF IsSome(range) THEN Unwrap(range).left
               ELSE OffsetDirection(unorganized_rays[1].offset),
               u)

\* LightGrid::trace_light_from: the LightArea, on the grid g and its corner
\* list; u holds what the build decides
TraceLightFrom(g, cornerList, origin, range, u) ==
    AreaOfUnorganized(origin, range,
                      SeedRays(LightFunction(g), origin, range)
                          \o RaysOfCorners(LightFunction(g), origin, range, cornerList, 1),
                      u)

\* The rays of the raycast specification: a region of cells that may block
\* in open space, starts on the half-pixel lattice around it, the axes, the
\* diagonals and the slopes 2 and 1/2 as directions
RayMaxDistance == 360
RayCells == (0..1) \X (0..2)
RayStarts == {0, 60, 120, 240} \X {0, 60, 120, 360}
RayDirections ==
    {d \in (-2..2) \X (-2..2) : d # <<0, 0>> /\ (d[1] = 0 => Abs(d[2]) = 1)
                                /\ (d[2] = 0 => Abs(d[1]) = 1)
                                /\ ~(Abs(d[1]) = 2 /\ Abs(d[2]) = 2)}
RayDistances == {0, 150, RayMaxDistance}
NoRayCall ==
    [op |-> "none", start |-> <<0, 0>>, direction |-> <<1, 0>>, max_distance |-> 0,
     ret |-> [point |-> PointAt(<<0, 0>>), normal |-> None]]

\* The collision function of the specification
RayFunction(blocked) == [inside |-> [c \in RayCells |-> c \in blocked], outside |-> FALSE]

\* No cell blocks and no ray was cast
RaycastIdle ==
    /\ rayFunction = {}
    /\ rayCall = NoRayCall

(***************************************************************************)
(* SlotGuard (collections/slot_guard.rs) over the entities of a Level.     *)
(* A call on the guard is [panicked, yielded]: the keys of the slots it    *)
(* hands a reference to.                                                   *)
(***************************************************************************)
GuardKeys == 1..3
GuardValues == 0..1

\* Index for SlotGuard without the test of the protected slot
SlotGuardIndex_Unchecked(collection, protected_slot, index) ==
    [panicked |-> index \notin DOMAIN collection,
     yielded |-> {index} \cap DOMAIN collection]

\* Index and IndexMut for SlotGuard: the panic of the protected slot, then
\* the collection's own index
SlotGuardIndex(collection, protected_slot, index) ==
    IF index = protected_slot THEN [panicked |-> TRUE, yielded |-> {}]
    ELSE [panicked |-> index \notin DOMAIN collection,
          yielded |-> {index} \cap DOMAIN collection]

\* SlotGuard::iter and iter_mut without the filter
SlotGuardIter_Unfiltered(collection, protected_slot) ==
    [panicked |-> FALSE, yielded |-> DOMAIN collection]

\* SlotGuard::iter and iter_mut
SlotGuardIter(collection, protected_slot) ==
    [panicked |-> FALSE, yielded |-> {slot \in DOMAIN collection : slot # protected_slot}]

NoAccess == [op |-> "none", index |-> 0, protected |-> None, yielded |-> {}, panicked |-> FALSE]

\* The keys of a collection in the order of its iterator
RECURSIVE KeysFrom(_, _)
KeysFrom(collection, k) ==
    IF k \notin GuardKeys THEN <<>>
    ELSE (IF k \in DOMAIN collection THEN <<k>> ELSE <<>>) \o KeysFrom(collection, k + 1)

(***************************************************************************)
(* SmallMap<K, V> (collections/small_map.rs) with a key of                  *)
(* new_small_key_type!: NonZero<$inner>, $inner an unsigned integer of      *)
(* KeyBits bits.                                                           *)
(***************************************************************************)
KeyBits == 2
KeyModulus == 2 ^ KeyBits

\* Key::try_from_usize: <$inner>::try_from(value).ok()?.wrapping_add(1),
\* then NonZero::new
TryFromUsize(value) ==
    IF value >= KeyModulus THEN None
    ELSE IF (value + 1) % KeyModulus = 0 THEN None
    ELSE Some((value + 1) % KeyModulus)

\* Key::into_usize
IntoUsize(key) == key - 1

\* SmallMap::default
SmallMapDefault == [data |-> <<>>, first_free |-> 0, len |-> 0]

\* The first loop of insert: push None until first_free is an index
RECURSIVE PushToFit(_, _)
PushToFit(d, first_free) ==
    IF first_free >= Len(d) THEN PushToFit(Append(d, None), first_free) ELSE d

\* The second loop of insert: first_free moves past the occupied slots
RECURSIVE NextFree(_, _)
NextFree(d, first_free) ==
    IF first_free < Len(d) /\ IsSome(d[first_free + 1]) THEN NextFree(d, first_free + 1)
    ELSE first_free

\* SmallMap::insert from the key on
SmallMapInsertAt(m, d, key, value) ==
    IF ~IsSome(key)
    THEN [map |-> [m EXCEPT !.data = d], ret |-> None, panicked |-> TRUE]
    ELSE [map |-> [data |-> [d EXCEPT ![m.first_free + 1] = Some(value)],
                   first_free |-> NextFree([d EXCEPT ![m.first_free + 1] = Some(value)],
                                           m.first_free),
                   len |-> m.len + 1],
          ret |-> key, panicked |-> FALSE]

\* SmallMap::insert: [map, ret, panicked]; the expect on the key panics
\* after the pushes
SmallMapInsert(m, value) ==
    SmallMapInsertAt(m, PushToFit(m.data, m.first_free), TryFromUsize(m.first_free), value)

\* SmallMap::get
SmallMapGet(m, key) ==
    IF IntoUsize(key) < Len(m.data) THEN m.data[IntoUsize(key) + 1] ELSE None

\* SmallMap::remove: [map, ret, panicked]
SmallMapRemove(m, key) ==
    IF IntoUsize(key) >= Len(m.data) \/ ~IsSome(m.data[IntoUsize(key) + 1])
    THEN [map |-> m, ret |-> None, panicked |-> FALSE]
    ELSE [map |-> [data |-> [m.data EXCEPT ![IntoUsize(key) + 1] = None],
                   first_free |-> Min(m.first_free, IntoUsize(key)),
                   len |-> m.len - 1],
          ret |-> m.data[IntoUsize(key) + 1], panicked |-> FALSE]

NoSmallCall == [op |-> "none", arg |-> 0, before |-> SmallMapDefault, ret |-> None,
                panicked |-> FALSE]

\* No logic evaluation is under way among entities wired as `inputs` says
LogicIdle(inputs) ==
    [inputs |-> inputs, running |-> FALSE, stack |-> <<>>,
     updates |-> [key \in DOMAIN inputs |-> None], visited |-> {},
     evaluated |-> [key \in DOMAIN inputs |-> 0], iterations |-> 0]

\* No guard is alive, no update is under way and the SmallMap is new
CollectionsIdle ==
    /\ sgEntities = [key \in GuardKeys |-> 0]
    /\ sgPending = <<>>
    /\ sgProtected = None
    /\ sgAccess = NoAccess
    /\ smMap = SmallMapDefault
    /\ smCall = NoSmallCall
    /\ logic = LogicIdle([key \in GuardKeys |-> <<>>])

(***************************************************************************)
(* The LightGrid specification: writes through index_mut and fill_tile     *)
(* interleaved with corners() and trace_light_from calls.  Of              *)
(* trace_light_from only its use of the corner cache is modelled here.     *)
(***************************************************************************)
LightMaxWrites == 3
PixelXs == {-1, 0, 1}
PixelYs == {0, 1}
TileIndexes == {<<0, 0>>}

\* No trace_light_from call returned an area yet
NoArea == [op |-> "none", origin |-> <<0, 0>>, range |-> None,
           area |-> [origin |-> <<0, 0>>, rays |-> <<>>, range |-> None]]

\* LightGrid::default
LightGridDefault ==
    /\ grid = TileGridDefault
    /\ updated = FALSE
    /\ corners = <<>>
    /\ lgOp = "none"
    /\ lgUsed = <<>>
    /\ lgRegen = FALSE
    /\ lgDirty = FALSE
    /\ lgWrites = 0
    /\ lgArea = NoArea

LightInit == HistoryDefault /\ LightGridDefault /\ LevelLoaded /\ TileGridNew /\ CollectionsIdle /\ RaycastIdle

\* light_grid[index] = pixel
WritePixel(index, pixel) ==
    LET res == LightIndexMut([grid |-> grid, updated |-> updated], index, pixel)
    IN  /\ lgWrites < LightMaxWrites
        /\ grid' = res.grid
        /\ updated' = res.updated
        /\ lgOp' = "index_mut"
        /\ lgDirty' = TRUE
        /\ lgWrites' = lgWrites + 1
        /\ UNCHANGED <<corners, lgUsed, lgRegen>>
        /\ UNCHANGED otherThanLight

\* light_grid.fill_tile(index, pixel)
CallFillTile(index, pixel) ==
    LET res == FillTile([grid |-> grid, updated |-> updated], index, pixel)
    IN  /\ lgWrites < LightMaxWrites
        /\ grid' = res.grid
        /\ updated' = res.updated
        /\ lgOp' = "fill_tile"
        /\ lgDirty' = TRUE
        /\ lgWrites' = lgWrites + 1
        /\ UNCHANGED <<corners, lgUsed, lgRegen>>
        /\ UNCHANGED otherThanLight

\* light_grid.corners()
CallCorners ==
    LET res == Corners([grid |-> grid, updated |-> updated, corners |-> corners])
    IN  /\ updated' = res.updated
        /\ corners' = res.corners
        /\ lgOp' = "corners"
        /\ lgUsed' = res.corners
        /\ lgRegen' = res.regenerated
        /\ lgDirty' = FALSE
        /\ UNCHANGED <<grid, lgWrites>>
        /\ UNCHANGED otherThanLight

\* light_grid.trace_light_from(..): `let _ = self.corners()`, then the loop
\* over &self.corners
CallTraceLightFrom ==
    LET res == Corners([grid |-> grid, updated |-> updated, corners |-> corners])
    IN  /\ updated' = res.updated
        /\ corners' = res.corners
        /\ lgOp' = "trace"
        /\ lgUsed' = res.corners
        /\ lgRegen' = res.regenerated
        /\ lgDirty' = FALSE
        /\ UNCHANGED <<grid, lgWrites>>
        /\ UNCHANGED otherThanLight

LightNext ==
    \/ \E x \in PixelXs, y \in PixelYs, pixel \in Pixels : WritePixel(<<x, y>>, pixel)
    \/ \E index \in TileIndexes, pixel \in Pixels : CallFillTile(index, pixel)
    \/ CallCorners
    \/ CallTraceLightFrom

SpecLightGrid == LightInit /\ [][LightNext]_vars

(***************************************************************************)
(* The History specification: any sequence of try_insert calls on an       *)
(* initially empty History, frames in any order.                           *)
(***************************************************************************)
HistInit == HistoryDefault /\ LightGridDefault /\ LevelLoaded /\ TileGridNew /\ CollectionsIdle /\ RaycastIdle

CallTryInsert(index, entry) ==
    LET res == TryInsert(data, index, entry)
    IN  /\ data' = res.data
        /\ ret' = res.result
        /\ call' = <<index, entry>>
        /\ written' = IF IsSome(written[index]) THEN written
                      ELSE [written EXCEPT ![index] = Some(entry)]
        /\ ordered' = (ordered /\ \A f \in HistFrames : IsSome(written[f]) => f < index)
        /\ UNCHANGED otherThanHist

HistNext == \E index \in HistFrames, entry \in HistValues : CallTryInsert(index, entry)

SpecHistory == HistInit /\ [][HistNext]_vars

PlayerInit == HistoryDefault /\ LightGridDefault /\ LevelLoaded /\ TileGridNew /\ CollectionsIdle /\ RaycastIdle

SpecPlayer == PlayerInit /\ [][PlayerNext]_vars

(***************************************************************************)
(* The sustained-paradox specification: a Recording player that stood      *)
(* still and saw the entity at SustainSeen in every frame of its recording *)
(* is replayed from frame MAXIMUM_TEMPORAL_OFFSET on in a level where the   *)
(* entity is never seen there again: in every frame it is seen elsewhere   *)
(* or not at all.  The game loop steps the level frame after frame.        *)
(***************************************************************************)
SustainSeen == Px(-40)
SustainNow ==
    {[position |-> position, inView |-> inView] :
        position \in EntityPositions, inView \in BOOLEAN}
    \ {[position |-> SustainSeen, inView |-> TRUE]}

\* The levels of the mismatches the player can meet, the least of them, and
\* the number of updates in which the least gain brings the confusion from
\* zero to above 1.0
SustainLevels ==
    {Unwrap(CompareStates([position |-> 0, view_direction |-> 1],
                          IF now.inView
                          THEN Some([position |-> F32(now.position), extra |-> 0])
                          ELSE None,
                          Some([position |-> F32(SustainSeen), extra |-> 0]))) :
        now \in SustainNow}
SustainLeast == CHOOSE x \in SustainLevels : \A y \in SustainLevels : x <= y
SustainBound == ConfusionOne \div ConfusionGain(SustainLeast) + 1
SustainLast == MAXIMUM_TEMPORAL_OFFSET + SustainBound + 2

SustainInit ==
    /\ HistoryDefault /\ LightGridDefault /\ TileGridNew /\ CollectionsIdle /\ RaycastIdle
    /\ level_frame = MAXIMUM_TEMPORAL_OFFSET
    /\ overflowChecks \in BOOLEAN
    /\ panicked = FALSE
    /\ player = [PlayerDefault EXCEPT
                    !.state = "Recording",
                    !.history = <<Constant(0, SustainLast + 1,
                                           [position |-> 0, mouse_position |-> 0])>>,
                    !.environment_history =
                        [k \in EntityKeys |->
                            Some(<<Constant(0, SustainLast + MAXIMUM_TEMPORAL_OFFSET + 1,
                                            [position |-> F32(SustainSeen), extra |-> 0])>>)],
                    !.view_area = Some([origin |-> 0, direction |-> 1])]
    /\ initial = PlayerDefault
    /\ \E now \in SustainNow :
          others = [k \in EntityKeys |->
                       [EntityStart EXCEPT !.position = now.position, !.inView = now.inView]]
    /\ calls = <<>>
    /\ recorded = [f \in RecordFrames |-> None]
    /\ sights = [k \in EntityKeys |-> [f \in RecordFrames |-> None]]
    /\ inputEvents = 0
    /\ entityChanges = 0
    /\ travels = 0
    /\ clean = TRUE

\* Level::update_game with no game action: the other entities update, then
\* the player, then update_view_area, then the frame counter
SustainedUpdate(now) ==
    LET entities == EntitiesAfter(others, now.position, now.inView)
        result == PlayerUpdate(player, level_frame, entities, overflowChecks)
    IN  /\ ~panicked
        /\ level_frame < SustainLast
        /\ others' = entities
        /\ panicked' = result.panicked
        /\ player' = IF result.panicked THEN result.player
                     ELSE UpdateViewArea(result.player)
        /\ level_frame' = IF result.panicked THEN level_frame ELSE level_frame + 1
        /\ calls' = <<CallOfUpdate(player, level_frame, entities, result)>>
        /\ UNCHANGED <<overflowChecks, initial, recorded, sights, clean,
                       inputEvents, entityChanges, travels>>
        /\ UNCHANGED otherThanPlayer

SustainNext == \E now \in SustainNow : SustainedUpdate(now)

\* The game loop runs Level::update as long as the level lasts, and each
\* update that returns ends by stepping the frame counter
FrameAdvances ==
    /\ ~panicked
    /\ level_frame < SustainLast
    /\ level_frame' = level_frame + 1

SpecSustained == SustainInit /\ [][SustainNext]_vars /\ WF_level_frame(FrameAdvances)

(***************************************************************************)
(* The paradox_level specification: one call of Player::paradox_level by a *)
(* Recording player with a view area, in a level of three other entities   *)
(* of which each exists or not, is within the view area or not, and was    *)
(* recorded over the frames 0 .. ParadoxRecorded - 1 or never.             *)
(***************************************************************************)
ParadoxOrder == <<"a", "b", "c">>
ParadoxKeys == {ParadoxOrder[i] : i \in DOMAIN ParadoxOrder}
ParadoxRecorded == 3
ParadoxFrames == {1, ParadoxRecorded + 1}
ParadoxEntities ==
    {[exists |-> FALSE, position |-> Px(-40), extra |-> 0, inView |-> FALSE]}
    \cup {[exists |-> TRUE, position |-> position, extra |-> 0, inView |-> inView] :
              position \in EntityPositions, inView \in BOOLEAN}
ParadoxHistories ==
    {None}
    \cup {Some(<<Constant(0, ParadoxRecorded, [position |-> F32(position), extra |-> 0])>>) :
              position \in EntityPositions}

ParadoxInit ==
    /\ HistoryDefault /\ LightGridDefault /\ TileGridNew /\ CollectionsIdle /\ RaycastIdle
    /\ level_frame = 0
    /\ overflowChecks \in BOOLEAN
    /\ panicked = FALSE
    /\ \E view_direction \in {-1, 1}, histories \in [ParadoxKeys -> ParadoxHistories] :
          player = [PlayerDefault EXCEPT
                       !.state = "Recording",
                       !.view_direction = view_direction,
                       !.environment_history = histories,
                       !.view_area = Some([origin |-> 0, direction |-> view_direction])]
    /\ initial = PlayerDefault
    /\ others \in [ParadoxKeys -> ParadoxEntities]
    /\ calls = <<>>
    /\ recorded = [f \in RecordFrames |-> None]
    /\ sights = [k \in EntityKeys |-> [f \in RecordFrames |-> None]]
    /\ inputEvents = 0
    /\ entityChanges = 0
    /\ travels = 0
    /\ clean = TRUE

\* One call of paradox_level, remembered by its frame and what it returned
CallParadoxLevel(frame) ==
    /\ calls = <<>>
    /\ calls' = <<[op |-> "paradox_level", frame |-> frame,
                   ret |-> ParadoxLevelIn(ParadoxOrder, player, frame, others)]>>
    /\ UNCHANGED <<level_frame, overflowChecks, panicked, player, initial, others,
                   recorded, sights, clean, inputEvents, entityChanges, travels>>
    /\ UNCHANGED otherThanPlayer

ParadoxNext == \E frame \in ParadoxFrames : CallParadoxLevel(frame)

SpecParadox == ParadoxInit /\ [][ParadoxNext]_vars

(***************************************************************************)
(* The long-record specification: a History whose one record is a Variable *)
(* record about MAXIMUM_RECORD_LENGTH long, as a long stretch of changing  *)
(* values leaves it, and one try_insert at its finish or next to it.  The  *)
(* values alternate up to a tail of four free values; no record of a       *)
(* History holds CONVERSION_THRESHOLD equal values in a row.  The          *)
(* reference map of the short histories is not kept here.                  *)
(***************************************************************************)
LongTail == 4
LongLengths == (MAXIMUM_RECORD_LENGTH - 1)..(MAXIMUM_RECORD_LENGTH + 1)

Alternating(k) == IF k % 2 = 1 THEN "a" ELSE "b"

LongValuesOf(n, tail) ==
    [k \in 1..n |-> IF k <= n - LongTail THEN Alternating(k) ELSE tail[k - (n - LongTail)]]

LongValues ==
    {values \in {LongValuesOf(n, tail) : n \in LongLengths, tail \in [1..LongTail -> HistValues]} :
        \A j \in (Len(values) - LongTail)..(Len(values) - CONVERSION_THRESHOLD + 1) :
            \E k \in j..(j + CONVERSION_THRESHOLD - 2) : values[k] # values[k + 1]}

LongInit ==
    /\ LightGridDefault /\ LevelLoaded /\ TileGridNew /\ CollectionsIdle /\ RaycastIdle
    /\ \E values \in LongValues : data = <<Variable(0, values)>>
    /\ call = <<>>
    /\ ret = None
    /\ written = [f \in HistFrames |-> None]
    /\ ordered = TRUE

\* history.try_insert(index, entry)
CallTryInsertLong(index, entry) ==
    LET res == TryInsert(data, index, entry)
    IN  /\ call = <<>>
        /\ data' = res.data
        /\ ret' = res.result
        /\ call' = <<index, entry>>
        /\ UNCHANGED <<written, ordered>>
        /\ UNCHANGED otherThanHist

LongNext ==
    \E index \in (MAXIMUM_RECORD_LENGTH - 2)..(MAXIMUM_RECORD_LENGTH + 2), entry \in HistValues :
        CallTryInsertLong(index, entry)

SpecLongRecord == LongInit /\ [][LongNext]_vars

(***************************************************************************)
(* The TileGrid specification: a TileGrid<Option<T>> under writes through  *)
(* index_mut, reads through index, set_bounds and the expand_to_fit calls. *)
(***************************************************************************)
TileInit == HistoryDefault /\ LightGridDefault /\ LevelLoaded /\ TileGridNew /\ CollectionsIdle /\ RaycastIdle

\* What a call is remembered by
TileCall(op, index, rect, value, result) ==
    [op |-> op, index |-> index, rect |-> rect, value |-> value,
     before |-> tgGrid, ret |-> result]

\* The written cells a resize to bounds keeps
LiveWithin(live, bounds) ==
    [i \in TileIndexRange |-> IF ContainsPoint(bounds, i) THEN live[i] ELSE None]

\* grid[index] = value
TileWriteDone(index, value, res) ==
    /\ tgGrid' = res.grid
    /\ tgLive' = IF res.present
                 THEN [LiveWithin(tgLive, res.grid.bounds) EXCEPT ![index] = Some(value)]
                 ELSE tgLive
    /\ tgCall' = TileCall("index_mut", index, TileRectDefault, value, res.present)
    /\ tgOps' = tgOps + 1
    /\ UNCHANGED otherThanTile

TileWrite(index, value) ==
    /\ tgOps < TileMaxOps
    /\ TileWriteDone(index, value, TileGridIndexMut(tgGrid, index, value, TileEmpty))

\* grid[index], a read
TileRead(index) ==
    /\ tgOps < TileMaxOps
    /\ tgCall' = TileCall("index", index, TileRectDefault, TileEmpty,
                          TileGridIndex(tgGrid, index, TileEmpty))
    /\ tgOps' = tgOps + 1
    /\ UNCHANGED <<tgGrid, tgLive>>
    /\ UNCHANGED otherThanTile

\* grid.set_bounds(rect)
TileSetBoundsDone(rect, res) ==
    /\ tgGrid' = res
    /\ tgLive' = LiveWithin(tgLive, res.bounds)
    /\ tgCall' = TileCall("set_bounds", NoIndex, rect, TileEmpty, TRUE)
    /\ tgOps' = tgOps + 1
    /\ UNCHANGED otherThanTile

TileSetBounds(rect) ==
    /\ tgOps < TileMaxOps
    /\ TileSetBoundsDone(rect, SetBounds(tgGrid, rect, TileEmpty))

\* grid.expand_to_fit_bounds(rect) and grid.expand_to_fit_index(index)
TileExpandDone(op, index, rect, res) ==
    /\ tgGrid' = res.grid
    /\ tgLive' = LiveWithin(tgLive, res.grid.bounds)
    /\ tgCall' = TileCall(op, index, rect, TileEmpty, res.expanded)
    /\ tgOps' = tgOps + 1
    /\ UNCHANGED otherThanTile

TileExpandToFitBounds(rect) ==
    /\ tgOps < TileMaxOps
    /\ TileExpandDone("expand_to_fit_bounds", NoIndex, rect,
                      ExpandToFitBounds(tgGrid, rect, TileEmpty))

TileExpandToFitIndex(index) ==
    /\ tgOps < TileMaxOps
    /\ TileExpandDone("expand_to_fit_index", index, TileRectDefault,
                      ExpandToFitIndex(tgGrid, index, TileEmpty))

TileNext ==
    \/ \E index \in TileIndexRange, value \in TileValues : TileWrite(index, value)
    \/ \E index \in TileIndexRange : TileRead(index)
    \/ \E rect \in TileRects : TileSetBounds(rect)
    \/ \E rect \in TileRects : TileExpandToFitBounds(rect)
    \/ \E index \in TileIndexRange : TileExpandToFitIndex(index)

SpecTileGrid == TileInit /\ [][TileNext]_vars

(***************************************************************************)
(* The tracer specification: fill_tile on the tile of the origin and       *)
(* writes of pixels around the origin, interleaved with trace_light_from   *)
(* followed by one trace_light_from call from the origin, without a range  *)
(* and with ranges of a quarter turn, of three quarters, of half a turn    *)
(* and of no width; the area of that call is kept in lgArea.               *)
(***************************************************************************)
TraceOrigins == {<<4 * RayUnit, 4 * RayUnit>>, <<3 * RayUnit, 2 * RayUnit>>}
TracePixels == {<<3, 3>>, <<4, 3>>, <<4, 4>>}
TraceRanges ==
    {None,
     Some([left |-> <<1, 0>>, right |-> <<0, 1>>]),
     Some([left |-> <<0, 1>>, right |-> <<1, 0>>]),
     Some([left |-> <<1, 1>>, right |-> <<-1, -1>>]),
     Some([left |-> <<-1, 2>>, right |-> <<-1, 2>>])}
BuildChoices == [tiesReversed : BOOLEAN, nanLow : BOOLEAN]

\* light_grid.trace_light_from(origin, angle_range)
CallTrace(origin, range, u) ==
    LET res == Corners([grid |-> grid, updated |-> updated, corners |-> corners])
    IN  /\ lgArea.op = "none"
        /\ updated' = res.updated
        /\ corners' = res.corners
        /\ lgOp' = "trace"
        /\ lgUsed' = res.corners
        /\ lgRegen' = res.regenerated
        /\ lgDirty' = FALSE
        /\ lgArea' = [op |-> "trace", origin |-> origin, range |-> range,
                      area |-> TraceLightFrom(grid, res.corners, origin, range, u)]
        /\ UNCHANGED <<grid, lgWrites>>
        /\ UNCHANGED otherThanTrace

TraceNext ==
    \/ \E index \in TracePixels, pixel \in Pixels :
           lgArea.op = "none" /\ WritePixel(index, pixel)
    \/ \E index \in TileIndexes, pixel \in Pixels :
           lgArea.op = "none" /\ CallFillTile(index, pixel)
    \/ \E origin \in TraceOrigins, range \in TraceRanges, u \in BuildChoices :
           CallTrace(origin, range, u)

SpecTracer == LightInit /\ [][TraceNext]_vars

(***************************************************************************)
(* The raycast specification: the cells the collision function blocks and *)
(* the arguments of the call are drawn at the start, and the call is made. *)
(***************************************************************************)
RayInit ==
    /\ HistoryDefault /\ LightGridDefault /\ LevelLoaded /\ TileGridNew /\ CollectionsIdle
    /\ rayFunction \in SUBSET RayCells
    /\ \E start \in RayStarts, direction \in RayDirections, max_distance \in RayDistances :
           rayCall = [NoRayCall EXCEPT !.start = start, !.direction = direction,
                                       !.max_distance = max_distance]

\* raycast(function, start, direction, max_distance) on the arguments drawn
CallRaycast ==
    /\ rayCall.op = "none"
    /\ rayCall' = [rayCall EXCEPT
                       !.op = "raycast",
                       !.ret = Raycast(RayFunction(rayFunction), rayCall.start,
                                       rayCall.direction, rayCall.max_distance)]
    /\ UNCHANGED rayFunction
    /\ UNCHANGED otherThanRay

RayNext == CallRaycast

SpecRaycast == RayInit /\ [][RayNext]_vars

(***************************************************************************)
(* The SlotGuard specification: the loop of Level::update_game makes a     *)
(* guard for each key in turn; the entity under update writes to itself    *)
(* through the reference SlotGuard::new gave it and reaches for any key    *)
(* through the guard, until its update returns and the guard is dropped.   *)
(***************************************************************************)
GuardInit == HistoryDefault /\ LightGridDefault /\ LevelLoaded /\ TileGridNew /\ CollectionsIdle /\ RaycastIdle

GuardAlive == IsSome(sgProtected) /\ ~sgAccess.panicked

\* update_game: self.entities.keys().collect()
UpdateGameKeys ==
    /\ sgProtected = None /\ sgPending = <<>> /\ ~sgAccess.panicked
    /\ sgPending' = KeysFrom(sgEntities, 1)
    /\ sgAccess' = NoAccess
    /\ UNCHANGED <<sgEntities, sgProtected>>
    /\ UNCHANGED otherThanGuard

\* SlotGuard::new(&mut self.entities, key)
CallSlotGuardNew ==
    /\ sgProtected = None /\ sgPending # <<>> /\ ~sgAccess.panicked
    /\ sgProtected' = Some(Head(sgPending))
    /\ sgPending' = Tail(sgPending)
    /\ sgAccess' = [op |-> "new", index |-> Head(sgPending), protected |-> Some(Head(sgPending)),
                    yielded |-> {Head(sgPending)}, panicked |-> FALSE]
    /\ UNCHANGED sgEntities
    /\ UNCHANGED otherThanGuard

\* The entity under update writes to itself
EntityWritesSelf(value) ==
    /\ GuardAlive
    /\ sgEntities' = [sgEntities EXCEPT ![Unwrap(sgProtected)] = value]
    /\ UNCHANGED <<sgPending, sgProtected, sgAccess>>
    /\ UNCHANGED otherThanGuard

\* entities[index]
CallGuardIndex(index) ==
    LET res == SlotGuardIndex(sgEntities, Unwrap(sgProtected), index)
    IN  /\ GuardAlive
        /\ sgAccess' = [op |-> "index", index |-> index, protected |-> sgProtected,
                        yielded |-> res.yielded, panicked |-> res.panicked]
        /\ UNCHANGED <<sgEntities, sgPending, sgProtected>>
        /\ UNCHANGED otherThanGuard

\* entities[index] = value
CallGuardIndexMut(index, value) ==
    LET res == SlotGuardIndex(sgEntities, Unwrap(sgProtected), index)
    IN  /\ GuardAlive
        /\ sgAccess' = [op |-> "index_mut", index |-> index, protected |-> sgProtected,
                        yielded |-> res.yielded, panicked |-> res.panicked]
        /\ sgEntities' = [key \in DOMAIN sgEntities |->
                             IF key \in res.yielded THEN value ELSE sgEntities[key]]
        /\ UNCHANGED <<sgPending, sgProtected>>
        /\ UNCHANGED otherThanGuard

\* entities.iter()
CallGuardIter ==
    LET res == SlotGuardIter(sgEntities, Unwrap(sgProtected))
    IN  /\ GuardAlive
        /\ sgAccess' = [op |-> "iter", index |-> 0, protected |-> sgProtected,
                        yielded |-> res.yielded, panicked |-> res.panicked]
        /\ UNCHANGED <<sgEntities, sgPending, sgProtected>>
        /\ UNCHANGED otherThanGuard

\* entities.iter_mut(), the caller assigning value to every item
CallGuardIterMut(value) ==
    LET res == SlotGuardIter(sgEntities, Unwrap(sgProtected))
    IN  /\ GuardAlive
        /\ sgAccess' = [op |-> "iter_mut", index |-> 0, protected |-> sgProtected,
                        yielded |-> res.yielded, panicked |-> res.panicked]
        /\ sgEntities' = [key \in DOMAIN sgEntities |->
                             IF key \in res.yielded THEN value ELSE sgEntities[key]]
        /\ UNCHANGED <<sgPending, sgProtected>>
        /\ UNCHANGED otherThanGuard

\* entity.update returns: the guard is dropped
EntityUpdateReturns ==
    /\ GuardAlive
    /\ sgProtected' = None
    /\ UNCHANGED <<sgEntities, sgPending, sgAccess>>
    /\ UNCHANGED otherThanGuard

GuardNext ==
    \/ UpdateGameKeys
    \/ CallSlotGuardNew
    \/ \E value \in GuardValues : EntityWritesSelf(value)
    \/ \E index \in GuardKeys : CallGuardIndex(index)
    \/ \E index \in GuardKeys, value \in GuardValues : CallGuardIndexMut(index, value)
    \/ CallGuardIter
    \/ \E value \in GuardValues : CallGuardIterMut(value)
    \/ EntityUpdateReturns

SpecSlotGuard == GuardInit /\ [][GuardNext]_vars

(***************************************************************************)
(* The SmallMap specification: insert, get and remove in any order on a    *)
(* SmallMap::default(); a panic ends the run.                              *)
(***************************************************************************)
SmallValues == {"a", "b"}
SmallKeys == 1..(KeyModulus - 1)

SmallInit == HistoryDefault /\ LightGridDefault /\ LevelLoaded /\ TileGridNew /\ CollectionsIdle /\ RaycastIdle

\* map.insert(value)
CallSmallInsert(value) ==
    LET res == SmallMapInsert(smMap, value)
    IN  /\ ~smCall.panicked
        /\ smMap' = res.map
        /\ smCall' = [op |-> "insert", arg |-> value, before |-> smMap, ret |-> res.ret,
                      panicked |-> res.panicked]
        /\ UNCHANGED otherThanSmall

\* map.get(key)
CallSmallGet(key) ==
    /\ ~smCall.panicked
    /\ smCall' = [op |-> "get", arg |-> key, before |-> smMap, ret |-> SmallMapGet(smMap, key),
                  panicked |-> FALSE]
    /\ UNCHANGED smMap
    /\ UNCHANGED otherThanSmall

\* map.remove(key)
CallSmallRemove(key) ==
    LET res == SmallMapRemove(smMap, key)
    IN  /\ ~smCall.panicked
        /\ smMap' = res.map
        /\ smCall' = [op |-> "remove", arg |-> key, before |-> smMap, ret |-> res.ret,
                      panicked |-> res.panicked]
        /\ UNCHANGED otherThanSmall

SmallNext ==
    \/ \E value \in SmallValues : CallSmallInsert(value)
    \/ \E key \in SmallKeys : CallSmallGet(key)
    \/ \E key \in SmallKeys : CallSmallRemove(key)

SpecSmallMap == SmallInit /\ [][SmallNext]_vars

(***************************************************************************)
(* The logic specification: the evaluation loop at the end of              *)
(* Level::update_game, one step per iteration of its `while`, over         *)
(* entities whose inputs are wired in any way among themselves.  What an   *)
(* entity's evaluate returns is its own affair: any boolean.               *)
(***************************************************************************)
LogicKeys == GuardKeys
\* The input lists a wiring can give an entity, a key twice included
LogicSources == UNION {[1..n -> LogicKeys] : n \in 0..2}

\* if updates.contains_key(key) { continue; }
AlreadyUpdated_Never(updates, key) == FALSE

AlreadyUpdated(updates, key) == IsSome(updates[key])

\* The `for &key in input_sources` of one iteration: the inputs gathered and
\* the keys pushed, from source i on.
RECURSIVE GatherInputs(_, _, _, _, _)
GatherInputs(sources, updates, visited, i, acc) ==
    IF i > Len(sources) THEN acc
    ELSE LET key == sources[i]
         IN  IF IsSome(updates[key])
             THEN GatherInputs(sources, updates, visited, i + 1,
                               [acc EXCEPT !.inputs = Append(@, Unwrap(updates[key]))])
             ELSE IF key \in visited
             THEN GatherInputs(sources, updates, visited, i + 1,
                               [acc EXCEPT !.inputs = Append(@, FALSE)])
             ELSE GatherInputs(sources, updates, visited, i + 1,
                               [acc EXCEPT !.pushed = Append(@, key)])

LogicInit ==
    /\ HistoryDefault /\ LightGridDefault /\ LevelLoaded /\ TileGridNew /\ RaycastIdle
    /\ sgEntities = [key \in GuardKeys |-> 0]
    /\ sgPending = <<>>
    /\ sgProtected = None
    /\ sgAccess = NoAccess
    /\ smMap = SmallMapDefault
    /\ smCall = NoSmallCall
    /\ \E inputs \in [LogicKeys -> LogicSources] : logic = LogicIdle(inputs)

\* let mut stack = self.entities.keys().collect(); updates and visited empty
LogicBegin ==
    /\ ~logic.running
    /\ logic' = [LogicIdle(logic.inputs) EXCEPT !.running = TRUE,
                                                !.stack = KeysFrom(logic.inputs, 1)]
    /\ UNCHANGED otherThanLogic

\* One iteration of `while let Some(&key) = stack.last()`
LogicIterate(result) ==
    /\ logic.running /\ logic.stack # <<>>
    /\ LET key == logic.stack[Len(logic.stack)]
           visited == logic.visited \cup {key}
           got == GatherInputs(logic.inputs[key], logic.updates, visited, 1,
                               [inputs |-> <<>>, pushed |-> <<>>])
           popped == SubSeq(logic.stack, 1, Len(logic.stack) - 1)
           stepped == [logic EXCEPT !.visited = visited, !.iterations = @ + 1]
       IN  IF Len(got.inputs) < Len(logic.inputs[key])
           THEN /\ logic' = [stepped EXCEPT !.stack = logic.stack \o got.pushed]
                /\ result = FALSE
           ELSE IF AlreadyUpdated(logic.updates, key)
           THEN /\ logic' = [stepped EXCEPT !.stack = popped]
                /\ result = FALSE
           ELSE logic' = [stepped EXCEPT !.stack = popped,
                                         !.updates[key] = Some(result),
                                         !.evaluated[key] = @ + 1]
    /\ UNCHANGED otherThanLogic

\* The stack is empty: the loop is left
LogicEnd ==
    /\ logic.running /\ logic.stack = <<>>
    /\ logic' = [logic EXCEPT !.running = FALSE]
    /\ UNCHANGED otherThanLogic

LogicStep ==
    \/ \E result \in BOOLEAN : LogicIterate(result)
    \/ LogicEnd

LogicNext ==
    \/ LogicBegin
    \/ LogicStep

\* update_game runs its loop to the end before anything else happens
SpecLogic == LogicInit /\ [][LogicNext]_vars /\ WF_logic(LogicStep)

(***************************************************************************)
(* Claims about History                                                    *)
(***************************************************************************)
\* The frames some call has named, and whether they form one run f0..f1 of
\* one value.
WrittenFrames == {f \in HistFrames : IsSome(written[f])}

\* C1: after inserts in strictly increasing frame order into an empty History,
\* get(f) returns exactly the value inserted at f for every inserted frame and
\* absent for every other frame, whatever record conversions happened.
C1_RoundTrip == ordered => \A f \in HistFrames : Get(data, f) = written[f]

\* A Variable record directly followed by the Constant record a conversion of
\* its trailing run made, in an ordered history.
C1_Witness ==
    /\ ordered
    /\ Len(data) = 2
    /\ data[1].kind = "Variable"
    /\ data[2].kind = "Constant"
    /\ data[2].start = data[1].start + Len(data[1].values)
    /\ data[2].finish - data[2].start >= CONVERSION_THRESHOLD

\* Frame index lies in the range of some record of records.
Covered(records, index) ==
    \E i \in 1..Len(records) :
        /\ records[i].start <= index
        /\ index < (IF records[i].kind = "Constant" THEN records[i].finish
                    ELSE records[i].start + Len(records[i].values))

\* C2: a try_insert at a frame some record already covers returns None and
\* leaves the records, and so every get, as they were.
C2_CoveredInsertFails ==
    [][(call' # <<>> /\ Covered(data, call'[1]))
          => /\ ret' = None
             /\ data' = data
             /\ \A f \in HistFrames : Get(data', f) = Get(data, f)]_vars

\* The last call failed at a frame strictly inside a record's range.
C2_Witness ==
    /\ call # <<>>
    /\ ret = None
    /\ \E i \in 1..Len(data) :
          Start(data[i]) < call[1] /\ call[1] + 1 < Finish(data[i])

\* C3: after any sequence of try_insert calls the records are in strictly
\* ascending start order and no two ranges overlap.
C3_SortedDisjoint ==
    \A i \in 1..(Len(data) - 1) :
        /\ data[i].start < data[i + 1].start
        /\ (IF data[i].kind = "Constant" THEN data[i].finish
            ELSE data[i].start + Len(data[i].values)) <= data[i + 1].start

\* Three or more records after out-of-order calls, the last of which failed.
C3_Witness == ~ordered /\ ret = None /\ call # <<>> /\ Len(data) >= 3

\* C4: from an empty History, the same value at N consecutive frames leaves
\* exactly one Constant record covering the N frames, and get returns the
\* value at each of them.
C4_SameValueRun ==
    \A f0 \in HistFrames, f1 \in HistFrames, v \in HistValues :
        (ordered /\ f0 <= f1 /\ WrittenFrames = f0..f1
                 /\ \A f \in f0..f1 : written[f] = Some(v))
        => /\ data = <<Constant(f0, f1 + 1, v)>>
           /\ \A f \in f0..f1 : Get(data, f) = Some(v)

\* A run of one value longer than the conversion threshold.
C4_Witness ==
    /\ ordered
    /\ Cardinality(WrittenFrames) > CONVERSION_THRESHOLD
    /\ \E v \in HistValues : \A f \in WrittenFrames : written[f] = Some(v)
    /\ \E f0 \in HistFrames, f1 \in HistFrames : WrittenFrames = f0..f1

\* The record a try_insert at index extends: its finish is index and no
\* record after it starts at index or before
Extends(records, i, index) ==
    /\ Finish(records[i]) = index
    /\ (i < Len(records) => Start(records[i + 1]) > index)

\* C23: a try_insert that extends a Constant record with a different value
\* turns the record in place into the Variable record of the two values if
\* the record is 1 long; if it is longer the record stays as it is and a
\* 1-long Constant record of the new value starts at the new frame.
C23_ConstantDifferentValue ==
    [][\A i \in 1..Len(data) :
           (/\ call' # <<>>
            /\ data[i].kind = "Constant"
            /\ Extends(data, i, call'[1])
            /\ data[i].value # call'[2])
           => IF data[i].finish - data[i].start = 1
              THEN data' = [data EXCEPT ![i] = Variable(data[i].start,
                                                        <<data[i].value, call'[2]>>)]
              ELSE data' = InsertAt(data, i + 1, Constant(call'[1], call'[1] + 1, call'[2]))]_vars

\* The last call put a 1-long Constant record behind a longer Constant
\* record of another value, and some 1-long record became a Variable record
\* of two values before.
C23_Witness ==
    /\ call # <<>> /\ ret # None
    /\ \E i \in 1..(Len(data) - 1) :
          /\ data[i].kind = "Constant"
          /\ data[i].finish - data[i].start > 1
          /\ data[i].finish = call[1]
          /\ data[i].value # call[2]
          /\ data[i + 1] = Constant(call[1], call[1] + 1, call[2])
    /\ \E j \in 1..Len(data) : data[j].kind = "Variable" /\ Len(data[j].values) = 2

\* C24: a try_insert that appends to a Variable record a value of which the
\* trailing run, the new value counted, reaches CONVERSION_THRESHOLD takes
\* the run off the Variable record and puts a Constant record of the value
\* over the frames of the run and the new frame.
C24_TrailingRunConverts ==
    [][\A i \in 1..Len(data) :
           (/\ call' # <<>>
            /\ data[i].kind = "Variable"
            /\ Extends(data, i, call'[1])
            /\ TrailingCount(data[i].values, call'[2]) + 1 >= CONVERSION_THRESHOLD)
           => /\ Len(data') = Len(data) + 1
              /\ \A j \in 1..(i - 1) : data'[j] = data[j]
              /\ \A j \in (i + 1)..Len(data) : data'[j + 1] = data[j]
              /\ data'[i] = Variable(data[i].start,
                                     SubSeq(data[i].values, 1,
                                            Len(data[i].values)
                                                - TrailingCount(data[i].values, call'[2])))
              /\ data'[i + 1] = Constant(call'[1] - TrailingCount(data[i].values, call'[2]),
                                         call'[1] + 1, call'[2])]_vars

\* The last call closed a run of CONVERSION_THRESHOLD at the end of a Variable
\* record: what is left of the record, then the Constant record of the run up
\* to the frame of the call.
C24_Witness ==
    /\ call # <<>> /\ ret # None
    /\ \E i \in 1..(Len(data) - 1) :
          /\ data[i].kind = "Variable"
          /\ data[i].values # <<>>
          /\ data[i].values[Len(data[i].values)] # call[2]
          /\ data[i + 1] = Constant(data[i].start + Len(data[i].values), call[1] + 1, call[2])
          /\ data[i + 1].finish - data[i + 1].start = CONVERSION_THRESHOLD

\* What C25 is about: the one record is a Variable record longer than
\* MAXIMUM_RECORD_LENGTH and the call is at its finish
ExtendsLongRecord ==
    /\ call' # <<>>
    /\ Len(data) = 1
    /\ data[1].kind = "Variable"
    /\ Len(data[1].values) > MAXIMUM_RECORD_LENGTH
    /\ call'[1] = Finish(data[1])

\* C25 as stated: a try_insert that would extend a Variable record longer
\* than MAXIMUM_RECORD_LENGTH leaves the record as it is and starts a 1-long
\* Constant record at the new frame, whatever the value.
C25_CapWhateverValue ==
    [][ExtendsLongRecord
       => data' = <<data[1], Constant(call'[1], call'[1] + 1, call'[2])>>]_vars

\* C25: a try_insert that would extend a Variable record longer than
\* MAXIMUM_RECORD_LENGTH with a value that does not close a trailing run of
\* CONVERSION_THRESHOLD leaves the record as it is and starts a 1-long
\* Constant record at the new frame; a value that closes such a run is
\* converted with its run as under the threshold rule.
C25_CapUnlessRunConverts ==
    [][ExtendsLongRecord
       => IF TrailingCount(data[1].values, call'[2]) + 1 < CONVERSION_THRESHOLD
          THEN data' = <<data[1], Constant(call'[1], call'[1] + 1, call'[2])>>
          ELSE data' = <<Variable(data[1].start,
                                  SubSeq(data[1].values, 1,
                                         Len(data[1].values)
                                             - TrailingCount(data[1].values, call'[2]))),
                         Constant(call'[1] - TrailingCount(data[1].values, call'[2]),
                                  call'[1] + 1, call'[2])>>]_vars

\* The call left a Variable record longer than MAXIMUM_RECORD_LENGTH and put
\* a 1-long Constant record behind it, of the value the record ends with.
C25_Witness ==
    /\ call # <<>> /\ ret # None
    /\ Len(data) = 2
    /\ data[1].kind = "Variable"
    /\ Len(data[1].values) > MAXIMUM_RECORD_LENGTH
    /\ data[1].values[Len(data[1].values)] = call[2]
    /\ data[2] = Constant(call[1], call[1] + 1, call[2])
    /\ call[1] = Len(data[1].values)

(***************************************************************************)
(* Claims about Player.  They read the calls of the last step: calls holds *)
(* one record for each Player::update and travel_to_beginning the step     *)
(* made.  What the recording holds is read from recorded and sights, which *)
(* the Active updates wrote beside the histories.                          *)
(***************************************************************************)
UpdateCalls == {i \in DOMAIN calls : calls[i].op = "update"}
TravelCalls == {i \in DOMAIN calls : calls[i].op = "travel"}
ReplayCalls == {i \in UpdateCalls : calls[i].pre = "Recording"}

\* The frames frame - 2 ..= frame + 2 around an update
WindowOf(c) == (c.frame - MAXIMUM_TEMPORAL_OFFSET)..(c.frame + MAXIMUM_TEMPORAL_OFFSET)

\* What the player of update c perceived of entity k differs from what it
\* recorded of k at frame f
Mismatch(c, k, f) == c.observed[k] # sights[k][f]

\* The paradox level of frame f in update c: the largest level of a
\* mismatched entity; only asked of frames with a mismatch
LevelAt(c, f) ==
    LET levels == {Unwrap(CompareStates([position |-> c.position,
                                         view_direction |-> c.view_direction],
                                        c.observed[k], sights[k][f])) :
                      k \in {k \in EntityKeys : Mismatch(c, k, f)}}
    IN  CHOOSE x \in levels : \A y \in levels : y <= x

\* Every frame of the window of update c shows a mismatch, and the least of
\* their levels
ParadoxIn(c) == c.view /\ \A f \in WindowOf(c) : \E k \in EntityKeys : Mismatch(c, k, f)
LeastLevel(c) ==
    CHOOSE x \in {LevelAt(c, f) : f \in WindowOf(c)} :
        \A f \in WindowOf(c) : x <= LevelAt(c, f)

\* C5 as stated: a Recording player that, at a frame F of its recording, sees
\* an entity in a state other than the one it recorded at F gains confusion
\* in the update of F.  Read of the frames from MAXIMUM_TEMPORAL_OFFSET on,
\* where the window has a lower bound, and of the confusion before the clamp.
C5_MismatchAtFrameIncreases ==
    \A i \in ReplayCalls :
        (/\ calls[i].entry
         /\ calls[i].frame >= MAXIMUM_TEMPORAL_OFFSET
         /\ \E k \in EntityKeys : /\ IsSome(calls[i].observed[k])
                                  /\ Mismatch(calls[i], k, calls[i].frame))
        => calls[i].unclamped > calls[i].confusion_before

\* C5, amended: a Recording player that at frame F >= 2 of its recording sees
\* an entity in a state other than the one it recorded at each of the frames
\* F-2 .. F+2 gains a nonzero amount of confusion in the update of F; in the
\* updates of frames 0 and 1 it gains none, whatever it sees.
C5_MismatchInWindowIncreases ==
    \A i \in ReplayCalls :
        /\ (/\ calls[i].entry
            /\ calls[i].frame >= MAXIMUM_TEMPORAL_OFFSET
            /\ \E k \in EntityKeys :
                  /\ IsSome(calls[i].observed[k])
                  /\ \A f \in WindowOf(calls[i]) : Mismatch(calls[i], k, f))
           => calls[i].unclamped > calls[i].confusion_before
        /\ calls[i].frame < MAXIMUM_TEMPORAL_OFFSET
           => calls[i].unclamped <= calls[i].confusion_before

C5_Witness ==
    \E i \in ReplayCalls :
        /\ calls[i].entry
        /\ calls[i].frame >= MAXIMUM_TEMPORAL_OFFSET
        /\ \E k \in EntityKeys :
              /\ IsSome(calls[i].observed[k])
              /\ \A f \in WindowOf(calls[i]) : Mismatch(calls[i], k, f)
        /\ calls[i].unclamped > calls[i].confusion_before

\* C6: the Recording copy's position after the update of a frame the player
\* recorded is the position recorded at that frame, and as long as nothing it
\* observed differed from the recording its confusion is zero.
C6_ReplayReproduces ==
    /\ \A i \in ReplayCalls :
          IsSome(recorded[calls[i].frame])
          => /\ calls[i].entry
             /\ calls[i].position = Unwrap(recorded[calls[i].frame])
    /\ (player.state = "Recording" /\ clean) => player.confusion = 0

C6_Witness ==
    /\ clean
    /\ player.state = "Recording"
    /\ \E i \in ReplayCalls :
          /\ calls[i].frame >= MAXIMUM_TEMPORAL_OFFSET
          /\ IsSome(recorded[calls[i].frame])
          /\ calls[i].position = Unwrap(recorded[calls[i].frame])
          /\ calls[i].position # PlayerDefault.position
          /\ \E k \in EntityKeys : IsSome(calls[i].observed[k])

\* C7: Player::update leaves an Active player Active and a Dead player Dead
\* and takes a Recording player to Recording or Dead; travel_to_beginning
\* takes an Active past copy to Recording and leaves every other past copy,
\* and the traveller, in its state.
C7_StateOnlyAdvances ==
    /\ \A i \in UpdateCalls :
          /\ calls[i].pre = "Active" => calls[i].post = "Active"
          /\ calls[i].pre = "Recording" => calls[i].post \in {"Recording", "Dead"}
          /\ calls[i].pre = "Dead" => calls[i].post = "Dead"
    /\ \A i \in TravelCalls :
          /\ calls[i].pre = "Active" => calls[i].post = "Recording"
          /\ calls[i].pre # "Active" => calls[i].post = calls[i].pre
          /\ calls[i].self_post = calls[i].self_pre

C7_Witness ==
    /\ \E i \in UpdateCalls : calls[i].pre = "Dead" /\ calls[i].post = "Dead"
    /\ \E i \in TravelCalls :
          /\ calls[i].pre = "Recording" /\ calls[i].post = "Recording"
          /\ calls[i].self_pre = "Dead" /\ calls[i].self_post = "Dead"

\* C8: an update takes a Recording player to Dead exactly if the confusion it
\* accumulated, as the update found it before clamping, exceeds 1.0;
\* otherwise the player stays Recording.
C8_DeadIffAboveOne ==
    \A i \in ReplayCalls :
        /\ calls[i].post = "Dead" <=> calls[i].unclamped > ConfusionOne
        /\ calls[i].post # "Dead" => calls[i].post = "Recording"

C8_Witness ==
    \E i \in ReplayCalls :
        /\ calls[i].post = "Dead"
        /\ calls[i].unclamped > ConfusionOne
        /\ calls[i].confusion_before <= ConfusionOne

\* C9 as stated: in each frame from MAXIMUM_TEMPORAL_OFFSET on the update of a
\* Recording player adds paradox_level / CONFUSION_TIME * dt to its confusion
\* if the window shows a paradox and otherwise takes dt / RECOVERY_TIME from
\* it, down to zero.
C9_EveryFrameGainsOrDecays ==
    \A i \in ReplayCalls :
        calls[i].frame >= MAXIMUM_TEMPORAL_OFFSET
        => IF ParadoxIn(calls[i])
           THEN calls[i].unclamped
                    = calls[i].confusion_before + ConfusionGain(LeastLevel(calls[i]))
           ELSE calls[i].confusion_after
                    = Clamp(calls[i].confusion_before - ConfusionDecay, 0, ConfusionOne)

\* C9, amended: in each frame for which its history has an entry the update
\* of a Recording player adds paradox_level / CONFUSION_TIME * dt to its
\* confusion if the window shows a paradox and otherwise takes
\* dt / RECOVERY_TIME from it, the result clamped to [0, 1]; in a frame where
\* no entity is mismatched it decays.  In a frame without an entry the
\* confusion is unchanged.  At frames 0 and 1 the update either panics with
\* the confusion untouched or decays it.
C9_GainsOrDecaysWhereRecorded ==
    \A i \in ReplayCalls :
        /\ ~calls[i].entry
           => /\ calls[i].unclamped = calls[i].confusion_before
              /\ calls[i].confusion_after = calls[i].confusion_before
        /\ (calls[i].entry /\ calls[i].frame >= MAXIMUM_TEMPORAL_OFFSET)
           => /\ ~calls[i].panicked
              /\ calls[i].unclamped
                    = IF ParadoxIn(calls[i])
                      THEN calls[i].confusion_before + ConfusionGain(LeastLevel(calls[i]))
                      ELSE calls[i].confusion_before - ConfusionDecay
              /\ calls[i].confusion_after = Clamp(calls[i].unclamped, 0, ConfusionOne)
              /\ (\A k \in EntityKeys : ~Mismatch(calls[i], k, calls[i].frame))
                 => calls[i].confusion_after
                       = Clamp(calls[i].confusion_before - ConfusionDecay, 0, ConfusionOne)
        /\ (calls[i].entry /\ calls[i].frame < MAXIMUM_TEMPORAL_OFFSET)
           => /\ calls[i].panicked = overflowChecks
              /\ calls[i].unclamped
                    = IF calls[i].panicked THEN calls[i].confusion_before
                      ELSE calls[i].confusion_before - ConfusionDecay
              /\ calls[i].confusion_after
                    = IF calls[i].panicked THEN calls[i].confusion_before
                      ELSE Clamp(calls[i].unclamped, 0, ConfusionOne)

C9_Witness ==
    \E i \in ReplayCalls :
        /\ ~calls[i].entry
        /\ calls[i].confusion_before > 0
        /\ calls[i].confusion_after = calls[i].confusion_before

\* C26: in the update of a frame F of its recording a Recording player's
\* confusion changes by the least paradox level of the frames F-2 .. F+2, a
\* frame without a mismatch being the least of all: the confusion increases
\* only if every frame of the window shows a mismatch, and then by
\* (the smallest of their levels / CONFUSION_TIME) * dt; from frame
\* MAXIMUM_TEMPORAL_OFFSET on, a window with a frame that shows no mismatch
\* makes it decay.
C26_LeastLevelOfWindowDrives ==
    \A i \in ReplayCalls :
        /\ calls[i].unclamped > calls[i].confusion_before
           => /\ calls[i].entry
              /\ ParadoxIn(calls[i])
              /\ calls[i].unclamped
                    = calls[i].confusion_before + ConfusionGain(LeastLevel(calls[i]))
        /\ (/\ calls[i].entry
            /\ calls[i].frame >= MAXIMUM_TEMPORAL_OFFSET
            /\ calls[i].view
            /\ \E f \in WindowOf(calls[i]) : \A k \in EntityKeys : ~Mismatch(calls[i], k, f))
           => calls[i].unclamped = calls[i].confusion_before - ConfusionDecay

\* An update that gains by a level below the one of its own frame, and one
\* that decays though its own frame shows a mismatch
C26_Witness ==
    \E i \in ReplayCalls :
        /\ calls[i].entry
        /\ calls[i].frame >= MAXIMUM_TEMPORAL_OFFSET
        /\ ParadoxIn(calls[i])
        /\ LeastLevel(calls[i]) < LevelAt(calls[i], calls[i].frame)
        /\ calls[i].unclamped > calls[i].confusion_before

\* What the player perceives of entity k now, what it recorded of k at frame
\* f, and the entities paradox_level is about at f: those it sees and those
\* it recorded as seen at f, whether they still exist or not
SeenNow(k) ==
    IF others[k].exists /\ others[k].inView THEN Some(VisibleState(others[k])) ELSE None
SeenThen(k, f) ==
    IF IsSome(player.environment_history[k])
    THEN Get(Unwrap(player.environment_history[k]), f)
    ELSE None
Mismatched(f) ==
    {k \in ParadoxKeys : (IsSome(SeenNow(k)) \/ IsSome(SeenThen(k, f)))
                         /\ SeenNow(k) # SeenThen(k, f)}
MismatchLevels(f) ==
    {Unwrap(CompareStates(player, SeenNow(k), SeenThen(k, f))) : k \in Mismatched(f)}

C31_WindowBoundsComputed ==
    \A i \in ReplayCalls :
        calls[i].entry
        => /\ ~calls[i].panicked
           /\ WrappingSub(calls[i].frame, MAXIMUM_TEMPORAL_OFFSET)
                 = calls[i].frame - MAXIMUM_TEMPORAL_OFFSET

\* C34: after every Player::update call, whatever the state of the player and
\* the paradox level, the confusion is within [0, 1]; so it is in every state
\* of the level.
C34_ConfusionWithinUnit ==
    /\ 0 <= player.confusion /\ player.confusion <= ConfusionOne
    /\ \A i \in UpdateCalls :
          0 <= calls[i].confusion_after /\ calls[i].confusion_after <= ConfusionOne

C34_Witness ==
    \E i \in UpdateCalls :
        /\ ~calls[i].panicked
        /\ calls[i].unclamped < 0
        /\ calls[i].confusion_after = 0
        /\ player.confusion = 0

\* C35: the update of a Recording player at a frame for which its own history
\* has no entry leaves its position, state, paradox position and confusion
\* as they were: the confusion neither increases nor decays.
C35_NoEntryChangesNothing ==
    /\ [][(/\ player.state = "Recording"
            /\ ~IsSome(Get(player.history, level_frame))
            /\ Len(calls') = 1
            /\ level_frame' = level_frame + 1)
           => /\ calls'[1].op = "update" /\ ~calls'[1].entry /\ ~calls'[1].panicked
              /\ player'.position = player.position
              /\ player'.state = player.state
              /\ player'.paradox_position = player.paradox_position
              /\ player'.confusion = player.confusion]_vars
    /\ [](\A i \in ReplayCalls :
            ~calls[i].entry
            => /\ calls[i].post = "Recording"
               /\ calls[i].unclamped = calls[i].confusion_before
               /\ calls[i].confusion_after = calls[i].confusion_before)

C35_Witness ==
    /\ Len(calls) = 1
    /\ calls[1].op = "update" /\ calls[1].pre = "Recording" /\ ~calls[1].entry
    /\ calls[1].confusion_before > 0
    /\ player.state = "Recording"
    /\ player.confusion = calls[1].confusion_before
    /\ IsSome(player.paradox_position)

\* C32: a Recording player that has a history entry and meets a mismatch of
\* level SustainLeast or more in every frame of its window, frame after
\* frame, becomes Dead, and does so within SustainBound updates, though each
\* update ends with its confusion clamped to 1.0.
C32_SustainedParadoxKills ==
    /\ <>(player.state = "Dead")
    /\ [](level_frame >= MAXIMUM_TEMPORAL_OFFSET + SustainBound => player.state = "Dead")

\* The player dies in an update that found its confusion at 1.0, where the
\* clamp of the update before had left it
C32_Witness ==
    /\ player.state = "Dead"
    /\ \E i \in ReplayCalls :
          /\ calls[i].confusion_before = ConfusionOne
          /\ calls[i].unclamped > ConfusionOne
          /\ calls[i].confusion_after = ConfusionOne
          /\ calls[i].post = "Dead"

(***************************************************************************)
(* Claims about TileGrid.  tgCall holds the last call, the grid before it  *)
(* and what it returned; tgGrid is the grid after it.                      *)
(***************************************************************************)
\* C11: after any sequence of writes and resizes (a write that grows the
\* grid, an expand_to_fit call, set_bounds), every written cell that every
\* resize since kept inside the bounds reads back the value last written
\* to it.
C11_ContentPreserved ==
    \A i \in TileIndexRange :
        IsSome(tgLive[i]) => TileGridIndex(tgGrid, i, TileEmpty) = Unwrap(tgLive[i])

C11_Witness ==
    /\ tgCall.op = "set_bounds"
    /\ tgCall.before.bounds.origin # tgGrid.bounds.origin
    /\ tgCall.before.bounds.size[1] # tgGrid.bounds.size[1]
    /\ \E i \in TileIndexRange :
          /\ IsSome(tgLive[i])
          /\ TileGridIndex(tgCall.before, i, TileEmpty) = Unwrap(tgLive[i])
    /\ \E i \in TileIndexRange :
          /\ TileGridIndex(tgCall.before, i, TileEmpty) # TileEmpty
          /\ ~ContainsPoint(tgGrid.bounds, i)

C13_ReadOutsideIsEmpty ==
    tgCall.op = "index"
    => /\ ~ContainsPoint(tgCall.before.bounds, tgCall.index) => tgCall.ret = TileEmpty
       /\ tgGrid = tgCall.before

C13_Witness ==
    /\ tgCall.op = "index"
    /\ ~ContainsPoint(tgCall.before.bounds, tgCall.index)
    /\ tgCall.index[1] < Left(tgCall.before.bounds)
    /\ \E k \in DOMAIN tgGrid.tiles : tgGrid.tiles[k] # TileEmpty
    /\ tgCall.ret = TileEmpty

\* C14 as stated: after expand_to_fit_bounds(rectangle) the bounds contain
\* the bounds held before and the rectangle, and the call returned true
\* exactly if the bounds changed.
C14_ExpandToFitBoundsGrows ==
    tgCall.op = "expand_to_fit_bounds"
    => /\ Cells(tgCall.before.bounds) \subseteq Cells(tgGrid.bounds)
       /\ Cells(tgCall.rect) \subseteq Cells(tgGrid.bounds)
       /\ tgCall.ret <=> tgGrid.bounds # tgCall.before.bounds

\* C15: after a write through index_mut or an expand_to_fit call the bounds
\* contain the bounds held before the call.
C15_BoundsGrow ==
    tgCall.op \in {"index_mut", "expand_to_fit_index", "expand_to_fit_bounds"}
    => Cells(tgCall.before.bounds) \subseteq Cells(tgGrid.bounds)

C15_Witness ==
    /\ tgCall.op = "index_mut"
    /\ ~RectIsEmpty(tgCall.before.bounds)
    /\ Left(tgGrid.bounds) < Left(tgCall.before.bounds)
    /\ Area(tgGrid.bounds) > Area(tgCall.before.bounds) + 1

(***************************************************************************)
(* Claims about LightGrid                                                  *)
(***************************************************************************)
\* The lattice vertices up to three pixels beyond the bounds of g, which is
\* every vertex that has a pixel of the grid among its four neighbours and
\* more; and the corners a classification of all of them yields.
VerticesAround(g) ==
    (Left(g.bounds) - 3 .. Right(g.bounds) + 3)
        \X (Top(g.bounds) - 3 .. Bottom(g.bounds) + 3)
ClassifiedCorners(g) ==
    UNION {{CornersAt(g, v[1], v[2])[k] : k \in DOMAIN CornersAt(g, v[1], v[2])}
           : v \in VerticesAround(g)}

\* C10: whatever writes (index_mut, fill_tile) came before it, a corners() or
\* trace_light_from call uses a corner list that holds exactly the corners of
\* a classification of every lattice vertex of the grid as it is at the call,
\* each once; and the call regenerates the list if and only if the grid was
\* written since the last call.
C10_CornersFresh ==
    [][lgOp' \in {"corners", "trace"}
          => /\ grid' = grid
             /\ {lgUsed'[k] : k \in DOMAIN lgUsed'} = ClassifiedCorners(grid')
             /\ Cardinality(ClassifiedCorners(grid')) = Len(lgUsed')
             /\ lgRegen' <=> lgDirty]_vars

\* A trace that regenerated a non-empty corner list after the second write or
\* a later one.
C10_Witness ==
    /\ lgOp = "trace"
    /\ lgRegen
    /\ lgUsed # <<>>
    /\ lgWrites >= 2

\* The four cells around the lattice vertex v, by the quadrant of v they lie
\* in (y grows to the south), and the quadrants whose cell blocks light
Quadrants == {"NorthWest", "NorthEast", "SouthWest", "SouthEast"}
QuadrantCell(v, q) ==
    CASE q = "NorthWest" -> <<v[1] - 1, v[2] - 1>>
      [] q = "NorthEast" -> <<v[1], v[2] - 1>>
      [] q = "SouthWest" -> <<v[1] - 1, v[2]>>
      [] q = "SouthEast" -> <<v[1], v[2]>>
BlockingQuadrants(g, v) ==
    {q \in Quadrants : BlocksLight(TileGridIndex(g, QuadrantCell(v, q), PixelEmpty))}
OppositeQuadrant(q) ==
    CASE q = "NorthWest" -> "SouthEast"
      [] q = "NorthEast" -> "SouthWest"
      [] q = "SouthWest" -> "NorthEast"
      [] q = "SouthEast" -> "NorthWest"
DiagonalPairs == {{"NorthWest", "SouthEast"}, {"NorthEast", "SouthWest"}}
ConvexToward(q) ==
    CASE q = "NorthWest" -> "ConvexNorthWest"
      [] q = "NorthEast" -> "ConvexNorthEast"
      [] q = "SouthWest" -> "ConvexSouthWest"
      [] q = "SouthEast" -> "ConvexSouthEast"
ConcaveToward(q) ==
    CASE q = "NorthWest" -> "ConcaveNorthWest"
      [] q = "NorthEast" -> "ConcaveNorthEast"
      [] q = "SouthWest" -> "ConcaveSouthWest"
      [] q = "SouthEast" -> "ConcaveSouthEast"
ConvexDirections == {ConvexToward(q) : q \in Quadrants}
ConcaveDirections == {ConcaveToward(q) : q \in Quadrants}

\* The places of the corner list in use that lie at vertex v, and their
\* directions
UsedAt(v) == {k \in DOMAIN lgUsed : lgUsed[k].location = v}
DirectionsAt(v) == {lgUsed[k].direction : k \in UsedAt(v)}

\* C16: in the corner list a corners() or trace_light_from call uses, a
\* vertex has no corner when its four cells agree or exactly two
\* edge-adjacent cells block light, one convex corner when exactly one cell
\* blocks, one concave corner directed at the open cell when three block, and
\* two distinct concave corners when exactly two diagonal cells block.
C16_CornerTable ==
    lgOp \in {"corners", "trace"}
    => \A v \in VerticesAround(grid) :
           LET blocking == BlockingQuadrants(grid, v)
               count == Cardinality(blocking)
           IN  CASE count = 1 ->
                        /\ Cardinality(UsedAt(v)) = 1
                        /\ DirectionsAt(v) \subseteq ConvexDirections
                 [] count = 3 ->
                        /\ Cardinality(UsedAt(v)) = 1
                        /\ DirectionsAt(v)
                               = {ConcaveToward(q) : q \in Quadrants \ blocking}
                 [] blocking \in DiagonalPairs ->
                        /\ Cardinality(UsedAt(v)) = 2
                        /\ Cardinality(DirectionsAt(v)) = 2
                        /\ DirectionsAt(v) \subseteq ConcaveDirections
                 [] OTHER -> UsedAt(v) = {}

\* A corner list in use over a grid that has a vertex of each kind: one,
\* three, two diagonal, two edge-adjacent and four blocking cells.
C16_Witness ==
    /\ lgOp \in {"corners", "trace"}
    /\ \A n \in {1, 3, 4} :
           \E v \in VerticesAround(grid) : Cardinality(BlockingQuadrants(grid, v)) = n
    /\ \E v \in VerticesAround(grid) : BlockingQuadrants(grid, v) \in DiagonalPairs
    /\ \E v \in VerticesAround(grid) :
           /\ Cardinality(BlockingQuadrants(grid, v)) = 2
           /\ BlockingQuadrants(grid, v) \notin DiagonalPairs

\* C17 as stated: where exactly one of the four cells around a vertex blocks
\* light, the direction of the convex corner names the quadrant in which the
\* blocking cell lies.
C17_ConvexTowardBlockingCell ==
    lgOp \in {"corners", "trace"}
    => \A v \in VerticesAround(grid) :
           Cardinality(BlockingQuadrants(grid, v)) = 1
           => DirectionsAt(v) = {ConvexToward(q) : q \in BlockingQuadrants(grid, v)}

\* C17: where exactly one of the four cells around a vertex blocks light, the
\* direction of the single convex corner names the quadrant diagonally
\* opposite the blocking cell, the one the corner of the cell points into.
C17_ConvexAwayFromBlockingCell ==
    lgOp \in {"corners", "trace"}
    => \A v \in VerticesAround(grid) :
           Cardinality(BlockingQuadrants(grid, v)) = 1
           => /\ Cardinality(UsedAt(v)) = 1
              /\ DirectionsAt(v)
                     = {ConvexToward(OppositeQuadrant(q)) : q \in BlockingQuadrants(grid, v)}

\* A corner list in use over a grid where, for each quadrant, some vertex has
\* its only blocking cell in that quadrant.
C17_Witness ==
    /\ lgOp \in {"corners", "trace"}
    /\ \A q \in Quadrants :
           \E v \in VerticesAround(grid) : BlockingQuadrants(grid, v) = {q}

(***************************************************************************)
(* Claims about raycast                                                    *)
(***************************************************************************)
\* The last call is a ray fired exactly along a grid line: the axis it runs
\* along (1 for x, 2 for y), the axis across, and its sign along the line
AlongLine ==
    /\ rayCall.op = "raycast"
    /\ \E i \in 1..2 : rayCall.direction[i] = 0 /\ rayCall.start[i] % RayUnit = 0
AcrossAxis == IF rayCall.direction[1] = 0 THEN 1 ELSE 2
AlongAxis == 3 - AcrossAxis
AlongSign == rayCall.direction[AlongAxis]

\* The coordinate along the line of the k-th lattice point ahead of the
\* start (the start itself for k = 0), the point, and the two cells that
\* straddle the line right ahead of it: `lower` is 1 for the cell on the
\* side of the smaller coordinate across the line and 0 for the other
LineCoordinate(k) ==
    IF k = 0 THEN rayCall.start[AlongAxis]
    ELSE IF AlongSign > 0
    THEN ((rayCall.start[AlongAxis] \div RayUnit) + k) * RayUnit
    ELSE (-((-rayCall.start[AlongAxis]) \div RayUnit) - k) * RayUnit
LinePoint(k) ==
    [i \in 1..2 |-> IF i = AlongAxis THEN LineCoordinate(k) ELSE rayCall.start[i]]
StraddledCell(k, lower) ==
    [i \in 1..2 |->
        IF i = AlongAxis
        THEN IF AlongSign > 0 THEN LineCoordinate(k) \div RayUnit
             ELSE -((-LineCoordinate(k)) \div RayUnit) - 1
        ELSE rayCall.start[i] \div RayUnit - lower]
StraddledBlocked(k, lower) == StraddledCell(k, lower) \in rayFunction

\* The lattice points of the line the scan visits: those ahead of the start
\* and nearer to it than max_distance
LineSteps ==
    {k \in 1..(rayCall.max_distance \div RayUnit + 1) :
        Abs(LineCoordinate(k) - rayCall.start[AlongAxis]) < rayCall.max_distance}
CappedPoint ==
    [base |-> rayCall.start, along |-> rayCall.direction, distance |-> rayCall.max_distance]
FacedWall ==
    IF AlongAxis = 1 THEN (IF AlongSign > 0 THEN "West" ELSE "East")
    ELSE (IF AlongSign > 0 THEN "North" ELSE "South")

\* A scan that stops at the first point, the start included, where one of
\* the two straddled cells blocks
EitherSteps == {k \in LineSteps \cup {0} : StraddledBlocked(k, 0) \/ StraddledBlocked(k, 1)}
EitherScanPoint ==
    IF EitherSteps = {} THEN CappedPoint
    ELSE PointAt(LinePoint(CHOOSE k \in EitherSteps : \A j \in EitherSteps : k <= j))

\* A scan that ends at the start, without a normal, if one of the two cells
\* straddled there blocks, and otherwise stops at the first point by which a
\* cell of each side of the line has been found blocked, there or before
BothSteps ==
    {k \in LineSteps : /\ \E i \in 1..k : StraddledBlocked(i, 0)
                       /\ \E j \in 1..k : StraddledBlocked(j, 1)}
BothScan ==
    IF StraddledBlocked(0, 0) \/ StraddledBlocked(0, 1)
    THEN [point |-> PointAt(rayCall.start), normal |-> None]
    ELSE IF BothSteps = {} THEN [point |-> CappedPoint, normal |-> None]
    ELSE [point |-> PointAt(LinePoint(CHOOSE k \in BothSteps : \A j \in BothSteps : k <= j)),
          normal |-> Some(Wall(FacedWall))]

\* A collision is reported at a lattice point of the line where one of the
\* two straddled cells blocks
CollisionAtBlockedCell ==
    IsSome(rayCall.ret.normal)
    => \E k \in LineSteps :
           /\ rayCall.ret.point = PointAt(LinePoint(k))
           /\ StraddledBlocked(k, 0) \/ StraddledBlocked(k, 1)

\* C18 as stated: a ray fired exactly along a grid line reports a collision
\* only where one of the two straddled cells blocks, and it ends where a scan
\* of the line cell by cell first finds one of the two straddled cells
\* blocked.
C18_EqualsEitherScan ==
    AlongLine => CollisionAtBlockedCell /\ rayCall.ret.point = EitherScanPoint

\* C18: a ray fired exactly along a grid line reports a collision only where
\* one of the two straddled cells blocks, and its result equals that of a
\* scan of the line cell by cell that ends at the start if a straddled cell
\* blocks there and otherwise at the first point by which both sides of the
\* line have been found blocked, or at max_distance.
C18_EqualsBothScan ==
    AlongLine => CollisionAtBlockedCell /\ rayCall.ret = BothScan

\* A ray along a grid line that passed a blocked cell on one side and ended
\* with a collision at a later point, where only the other side blocks.
C18_Witness ==
    /\ AlongLine
    /\ IsSome(rayCall.ret.normal)
    /\ \E k \in LineSteps :
           /\ k >= 2
           /\ rayCall.ret.point = PointAt(LinePoint(k))
           /\ ~(StraddledBlocked(k, 0) /\ StraddledBlocked(k, 1))
           /\ \E i \in 1..(k - 1) : StraddledBlocked(i, 0) \/ StraddledBlocked(i, 1)

\* The part of the last ray inside the closed square of a cell.  A point of
\* the ray is start + (t / SpanScale) * direction for a t >= 0 with
\* t * |direction| <= max_distance * SpanScale; SpanLow(c, i) and
\* SpanHigh(c, i) bound the t at which coordinate i is within the cell (every
\* t when the ray keeps coordinate i and it is within the cell, none when it
\* is not).
SpanScale ==
    (IF rayCall.direction[1] = 0 THEN 1 ELSE Abs(rayCall.direction[1]))
    * (IF rayCall.direction[2] = 0 THEN 1 ELSE Abs(rayCall.direction[2]))
SpanEnds(c, i) ==
    {((c[i] + e) * RayUnit - rayCall.start[i]) * Signum(rayCall.direction[i])
         * (SpanScale \div Abs(rayCall.direction[i])) : e \in {0, 1}}
SpanInside(c, i) ==
    c[i] * RayUnit <= rayCall.start[i] /\ rayCall.start[i] <= (c[i] + 1) * RayUnit
SpanLow(c, i) ==
    IF rayCall.direction[i] = 0 THEN 0
    ELSE CHOOSE t \in SpanEnds(c, i) : \A u \in SpanEnds(c, i) : t <= u
SpanHigh(c, i) ==
    IF rayCall.direction[i] = 0 THEN (IF SpanInside(c, i) THEN 1000000 ELSE -1)
    ELSE CHOOSE t \in SpanEnds(c, i) : \A u \in SpanEnds(c, i) : t >= u

\* The cell c is on the path of the last ray: the ray, as long as
\* max_distance, has a point in the closed square of c
OnPath(c) ==
    LET low == Max(0, Max(SpanLow(c, 1), SpanLow(c, 2)))
        high == Min(SpanHigh(c, 1), SpanHigh(c, 2))
        squared == rayCall.direction[1] * rayCall.direction[1]
                   + rayCall.direction[2] * rayCall.direction[2]
    IN  /\ low <= high
        /\ low * low * squared
               <= rayCall.max_distance * rayCall.max_distance * SpanScale * SpanScale

\* C19: a raycast with max_distance D of which no cell on the path blocks
\* ends (the call returns), returns the point at distance D from the start
\* along the ray and reports no collision normal.
C19_OpenPathReachesMaxDistance ==
    (rayCall.op = "raycast" /\ \A c \in rayFunction : ~OnPath(c))
    => /\ rayCall.ret.normal = None
       /\ rayCall.ret.point.base = rayCall.start
       /\ rayCall.ret.point.along = rayCall.direction
       /\ rayCall.ret.point.distance = rayCall.max_distance

\* A ray of the greatest length that is not parallel to an axis, crosses the
\* region and has a blocked cell of the region beside its path, none on it.
C19_Witness ==
    /\ rayCall.op = "raycast"
    /\ rayCall.max_distance = RayMaxDistance
    /\ rayCall.direction[1] # 0 /\ rayCall.direction[2] # 0
    /\ rayFunction # {}
    /\ \A c \in rayFunction : ~OnPath(c)
    /\ Cardinality({c \in RayCells : OnPath(c)}) >= 3

(***************************************************************************)
(* Claims about trace_light_from.                                          *)
(***************************************************************************)
\* The square of the distance from a point to the nearest point of a cell
NearestAlong(c, point, axis) ==
    Max(0, Max(c[axis] * RayUnit - point[axis], point[axis] - (c[axis] + 1) * RayUnit))
NearestSquared(c, point) ==
    NearestAlong(c, point, 1) * NearestAlong(c, point, 1)
        + NearestAlong(c, point, 2) * NearestAlong(c, point, 2)

\* The cells that reach to within the greatest length of a ray and one
\* pixel more of a point
TraceReach == RayRange + RayUnit
CellsAround(point) ==
    {c \in ((point[1] \div RayUnit - TraceReach \div RayUnit - 2)
                ..(point[1] \div RayUnit + TraceReach \div RayUnit + 1))
           \X ((point[2] \div RayUnit - TraceReach \div RayUnit - 2)
                ..(point[2] \div RayUnit + TraceReach \div RayUnit + 1)) :
        NearestSquared(c, point) <= TraceReach * TraceReach}

\* No cell around the origin of the traced area blocks light
OpenAround ==
    \A c \in CellsAround(lgArea.origin) : ~Blocked(LightFunction(grid), c)

\* The grid holds no cell: it is as LightGrid::default() made it
EmptyGrid == RectIsEmpty(grid.bounds)

\* The stored ray of the greatest length in a direction, without a normal
CappedRay(direction) ==
    [offset |-> [vec |-> <<0, 0>>, along |-> direction, distance |-> RayRange],
     collision |-> None]

RaysOfArea == {lgArea.area.rays[k] : k \in 1..Len(lgArea.area.rays)}

\* The area is the fan of the four rays of the sentinel directions
SentinelFan ==
    /\ Len(lgArea.area.rays) = 4
    /\ RaysOfArea = {CappedRay(SentinelDirections[k]) : k \in 1..4}

\* The area is the pie slice of the two edge rays
PieSlice ==
    /\ Len(lgArea.area.rays) = 2
    /\ RaysOfArea = {CappedRay(Unwrap(lgArea.range).left),
                     CappedRay(Unwrap(lgArea.range).right)}

FanOrPieSlice ==
    /\ lgArea.area.origin = lgArea.origin
    /\ lgArea.area.range = lgArea.range
    /\ IF IsSome(lgArea.range) THEN PieSlice ELSE SentinelFan

GuardAccessPaths == {"index", "index_mut", "iter", "iter_mut"}

\* C21: while an entity is updated through a SlotGuard, no index, index_mut,
\* iter or iter_mut on the guard yields the slot of that entity.
C21_GuardNeverYieldsProtected ==
    sgAccess.op \in GuardAccessPaths => Unwrap(sgAccess.protected) \notin sgAccess.yielded

\* The entity under update asked the guard for its own slot, to write to it:
\* the call panicked and handed out nothing.
C21_Witness ==
    /\ sgAccess.op = "index_mut"
    /\ sgAccess.index = Unwrap(sgAccess.protected)
    /\ sgProtected = sgAccess.protected
    /\ sgAccess.panicked
    /\ sgAccess.yielded = {}

(***************************************************************************)
(* Claims about SmallMap.  smCall holds the last call and the map before   *)
(* it.                                                                     *)
(***************************************************************************)
\* Every key the key type can hold is in use
KeysExhausted(m) == \A key \in SmallKeys : IsSome(SmallMapGet(m, key))

\* C22: an insert into a SmallMap of which every representable key is in
\* use does not panic.
C22_ExhaustedInsertDoesNotPanic ==
    (smCall.op = "insert" /\ KeysExhausted(smCall.before)) => ~smCall.panicked

(***************************************************************************)
(* Claims about raycast at a lattice corner.  The way of the ray is told   *)
(* by the steps of the loop alone, whatever blocks: PathLocation(n) is the *)
(* location after n steps.                                                 *)
(***************************************************************************)
PathSteps == 1..4

RECURSIVE PathLocation(_)
PathLocation(n) ==
    IF n = 0 THEN SnapLocation(rayCall.start)
    ELSE StepLocation(PathLocation(n - 1), rayCall.direction,
                      CompareTimes(PathLocation(n - 1), rayCall.direction))

\* Step n crosses both grid lines at once: its location is a lattice corner
PathAtCorner(n) == CompareTimes(PathLocation(n - 1), rayCall.direction) = "Equal"

\* The cell the ray enters at step n and the two cells beside its path there
PathIndex(n) == index_of_location(PathLocation(n), rayCall.direction)
PathFlankX(n) == <<PathIndex(n)[1] - Signum(rayCall.direction[1]), PathIndex(n)[2]>>
PathFlankY(n) == <<PathIndex(n)[1], PathIndex(n)[2] - Signum(rayCall.direction[2])>>
PathOpen(index) == ~Blocked(RayFunction(rayFunction), index)

\* The ray comes to its step n: short of max_distance, through open cells,
\* with nothing beside the corners before
PathComesTo(n) ==
    /\ rayCall.direction[1] # 0 /\ rayCall.direction[2] # 0
    /\ ~MaxDistanceReached(rayCall.start, PathLocation(n), rayCall.max_distance)
    /\ \A m \in 0..(n - 1) :
          /\ PathOpen(PathIndex(m))
          /\ (m > 0 /\ PathAtCorner(m)) => PathOpen(PathFlankX(m)) /\ PathOpen(PathFlankY(m))

\* Step n meets a checkerboard pair: both cells beside the path block and the
\* cell ahead is open
PathCheckerboard(n) ==
    /\ PathAtCorner(n)
    /\ ~PathOpen(PathFlankX(n)) /\ ~PathOpen(PathFlankY(n))
    /\ PathOpen(PathIndex(n))

\* C28: a ray that comes to a lattice corner where the two cells diagonally
\* beside its path both block returns that corner as a collision, with the
\* normal of a concave corner, though the cell it would enter is open.
C28_CheckerboardBlocks ==
    rayCall.op = "raycast"
    => \A n \in PathSteps :
          (PathComesTo(n) /\ PathCheckerboard(n))
          => /\ rayCall.ret.point = PointAt(PathLocation(n))
             /\ rayCall.ret.normal
                   = Some(Corner(CornerDirectionNew(TRUE, rayCall.direction[2] < 0,
                                                    rayCall.direction[1] > 0), FALSE))

\* A call stopped by a checkerboard pair at the second step of its way
C28_Witness ==
    /\ rayCall.op = "raycast"
    /\ PathComesTo(2) /\ PathCheckerboard(2)
    /\ IsSome(rayCall.ret.normal)

(***************************************************************************)
(* Claims about raycast off the grid lines                                 *)
(***************************************************************************)
WaySteps == 1..6

\* The call is not one along a grid line: neither edge flag is set
OffGridLines ==
    /\ ~(SnapDirection(rayCall.direction).on_x_edge /\ NearGridLine(rayCall.start[1]))
    /\ ~(SnapDirection(rayCall.direction).on_y_edge /\ NearGridLine(rayCall.start[2]))

\* The loop reaches its step n short of max_distance
WayWithin(n) ==
    \A m \in 1..n :
        ~MaxDistanceReached(rayCall.start, PathLocation(m), rayCall.max_distance)

\* The call returned a collision at the location of step n
CollisionAt(n) ==
    /\ IsSome(rayCall.ret.normal)
    /\ WayWithin(n)
    /\ rayCall.ret.point = PointAt(PathLocation(n))

\* The call went on from step n: it returned at a later step, or at max_distance
WentOnFrom(n) ==
    /\ WayWithin(n)
    /\ \/ \E later \in WaySteps : later > n /\ CollisionAt(later)
       \/ ~IsSome(rayCall.ret.normal) /\ rayCall.ret.point # PointAt(SnapLocation(rayCall.start))

BothFlanksBlock(n) ==
    PathAtCorner(n) /\ ~PathOpen(PathFlankX(n)) /\ ~PathOpen(PathFlankY(n))

\* C36 as stated: for a ray that does not travel along a grid line, every cell
\* the ray occupies before the returned end point is unblocked, and a
\* collision is reported only where the cell entered at the returned point is
\* blocked, or, at a lattice corner, both cells diagonally beside the path are.
C36_StopsOnlyAtBlocked ==
    (rayCall.op = "raycast" /\ OffGridLines)
    => /\ \A n \in WaySteps : WentOnFrom(n) => PathOpen(PathIndex(n))
       /\ \A n \in WaySteps :
             CollisionAt(n) => ~PathOpen(PathIndex(n)) \/ BothFlanksBlock(n)

\* By step n the ray has passed or reached a lattice corner with a blocked
\* cell beside its path on the x side, and one on the y side
FlankXSeenBy(n) == \E m \in 1..n : PathAtCorner(m) /\ ~PathOpen(PathFlankX(m))
FlankYSeenBy(n) == \E m \in 1..n : PathAtCorner(m) /\ ~PathOpen(PathFlankY(m))

\* C36, amended: for a ray that does not travel along a grid line, every cell
\* the ray occupies before the returned end point is unblocked, and a
\* collision is reported only where the cell entered at the returned point is
\* blocked, or, at a lattice corner, one of the two cells diagonally beside
\* the path is and the one on the other side is too or was at a lattice
\* corner the ray passed earlier.
C36_StopsWhereBothSidesSeen ==
    (rayCall.op = "raycast" /\ OffGridLines)
    => /\ \A n \in WaySteps : WentOnFrom(n) => PathOpen(PathIndex(n))
       /\ \A n \in WaySteps :
             CollisionAt(n)
             => \/ ~PathOpen(PathIndex(n))
                \/ /\ PathAtCorner(n)
                   /\ ~PathOpen(PathFlankX(n)) \/ ~PathOpen(PathFlankY(n))
                   /\ FlankXSeenBy(n) /\ FlankYSeenBy(n)

\* A ray stopped at the second lattice corner of its way, before an open
\* cell, by a blocked cell beside each of the two corners
C36_Witness ==
    /\ rayCall.op = "raycast" /\ OffGridLines
    /\ \E n \in WaySteps :
          /\ CollisionAt(n)
          /\ PathOpen(PathIndex(n))
          /\ ~BothFlanksBlock(n)
          /\ \A m \in 0..(n - 1) : PathOpen(PathIndex(m))

(***************************************************************************)
(* Claims about the rays of a traced area.  The rays the trace pushed, the *)
(* reference of its sort and the sorted list are told again from the grid  *)
(* and the corner list the trace used; the order of the sort is known up   *)
(* to what the build decides.                                              *)
(***************************************************************************)
TracedUnorganized ==
    SeedRays(LightFunction(grid), lgArea.origin, lgArea.range)
        \o RaysOfCorners(LightFunction(grid), lgArea.origin, lgArea.range, lgUsed, 1)
TracedReference ==
    IF IsSome(lgArea.range) THEN Unwrap(lgArea.range).left
    ELSE OffsetDirection(TracedUnorganized[1].offset)
TracedSorted(u) ==
    SortRays(TracedUnorganized, TracedReference, u, Len(TracedUnorganized))

\* The chunks of a sorted list: each maximal run of rays of which every two
\* neighbours compare equal in angle
ChunkStarts(sorted, u) ==
    {k \in 1..Len(sorted) :
        k = 1 \/ CompareRayAngles(sorted[k - 1], sorted[k], TracedReference, u.nanLow) # "Equal"}
ChunksOf(sorted, u) ==
    {SubSeq(sorted, k, ChunkEnd(sorted, TracedReference, u.nanLow, k)) :
        k \in ChunkStarts(sorted, u)}

EqualMagnitudes(chunk) ==
    \A i \in DOMAIN chunk, j \in DOMAIN chunk :
        MagnitudeSquared(chunk[i].offset) = MagnitudeSquared(chunk[j].offset)
IsShortest(chunk, i) ==
    \A j \in DOMAIN chunk :
        MagnitudeSquared(chunk[i].offset) <= MagnitudeSquared(chunk[j].offset)
IsLongest(chunk, i) ==
    \A j \in DOMAIN chunk :
        MagnitudeSquared(chunk[i].offset) >= MagnitudeSquared(chunk[j].offset)

\* What the claim says a chunk of two or more rays gives: one of its rays if
\* all are of one length, else a shortest and a longest, the one of the lower
\* partition last
OneOrExtremes(chunk, out) ==
    IF EqualMagnitudes(chunk)
    THEN \E i \in DOMAIN chunk : out = <<StoredRay(chunk[i])>>
    ELSE \E s \in DOMAIN chunk, l \in DOMAIN chunk :
            /\ IsShortest(chunk, s) /\ IsLongest(chunk, l)
            /\ out = IF PartitionRank(chunk[s].partition) < PartitionRank(chunk[l].partition)
                     THEN <<StoredRay(chunk[l]), StoredRay(chunk[s])>>
                     ELSE <<StoredRay(chunk[s]), StoredRay(chunk[l])>>

\* The number of rays the claim gives the chunks of a sorted list together
RaysOwed(sorted, u) ==
    Cardinality(ChunkStarts(sorted, u))
    + Cardinality({k \in ChunkStarts(sorted, u) :
                      ~EqualMagnitudes(SubSeq(sorted, k,
                                              ChunkEnd(sorted, TracedReference, u.nanLow, k)))})

\* C29: of the sorted rays of a trace every chunk of two or more rays of one
\* angle gives the area one ray if its rays are all of one length, and else
\* two, the shortest and the longest, in the order of their partitions; the
\* area holds one ray for each chunk and one more for each chunk of rays of
\* different lengths.
C29_ChunkGivesOneOrExtremes ==
    lgArea.op = "trace"
    => /\ \A u \in BuildChoices : \A chunk \in ChunksOf(TracedSorted(u), u) :
             Len(chunk) >= 2 => OneOrExtremes(chunk, RaysOfChunk(chunk))
       /\ \E u \in BuildChoices :
             Len(lgArea.area.rays) = RaysOwed(TracedSorted(u), u)

\* A trace with a chunk of rays of different lengths of which the shortest
\* has the lower partition, so that the longest comes first
C29_Witness ==
    /\ lgArea.op = "trace"
    /\ \E u \in BuildChoices : \E chunk \in ChunksOf(TracedSorted(u), u) :
          /\ Len(chunk) >= 2
          /\ \E s \in DOMAIN chunk, l \in DOMAIN chunk :
                /\ IsShortest(chunk, s) /\ IsLongest(chunk, l)
                /\ PartitionRank(chunk[s].partition) < PartitionRank(chunk[l].partition)
                /\ RaysOfChunk(chunk) = <<StoredRay(chunk[l]), StoredRay(chunk[s])>>

(***************************************************************************)
(* Claims about the rays a trace pushes for one corner.  A corner of the   *)
(* list the trace used is told by its index k.                             *)
(***************************************************************************)
TracedCorners == DOMAIN lgUsed
OffsetToCorner(k) ==
    <<lgUsed[k].location[1] * RayUnit - lgArea.origin[1],
      lgUsed[k].location[2] * RayUnit - lgArea.origin[2]>>
CastAtCorner(k) ==
    Raycast(LightFunction(grid), lgArea.origin, Reduced(OffsetToCorner(k)), RayRange)

\* The corner passes the tests of facing, of the range and of occlusion
Survives(k) ==
    /\ ContainsOffset(lgUsed[k].direction, Negated(OffsetToCorner(k)))
    /\ IsSome(lgArea.range) => RangeContainsOffset(Unwrap(lgArea.range), OffsetToCorner(k))
    /\ OffsetToCorner(k) # <<0, 0>>
    /\ ~Occluded(OffsetOf(CastAtCorner(k).point, lgArea.origin), OffsetToCorner(k))

\* The rays the trace pushed for the corner, and what they are: one that
\* ends at the corner, one that is the cast gone on past it
RaysAtCorner(k) ==
    CornerRays(LightFunction(grid), lgArea.origin, lgArea.range, lgUsed[k].direction,
               OffsetToCorner(k))
EndsAtCorner(ray, k) == ray.offset = ExactOffset(OffsetToCorner(k))
IsTheCast(ray, k) ==
    /\ ray.offset = OffsetOf(CastAtCorner(k).point, lgArea.origin)
    /\ ray.collision = CastAtCorner(k).normal

\* The ray comes to the corner along a grid line; the two cells beside that
\* line on the near side of the corner and on the far side
AlongGridLine(k) == OffsetToCorner(k)[1] = 0 \/ OffsetToCorner(k)[2] = 0
CellsBeside(k, far) ==
    LET c == lgUsed[k].location
        s == <<Signum(OffsetToCorner(k)[1]), Signum(OffsetToCorner(k)[2])>>
        step(i) == IF (s[i] > 0) = far THEN c[i] ELSE c[i] - 1
    IN  IF s[2] = 0 THEN {<<step(1), c[2] - 1>>, <<step(1), c[2]>>}
        ELSE {<<c[1] - 1, step(2)>>, <<c[1], step(2)>>}
BlockedBeside(k, far) ==
    \E cell \in CellsBeside(k, far) : Blocked(LightFunction(grid), cell)

\* The ray comes to a convex corner along one of its edges: the blocking cell
\* of the corner lies beside the ray before the corner, and past the corner
\* the way is open on both sides
EdgeBefore(k) ==
    /\ AlongGridLine(k)
    /\ ~IsConcave(lgUsed[k].direction)
    /\ BlockedBeside(k, FALSE)
    /\ ~BlockedBeside(k, TRUE)

\* The corner gets one ray, which ends at it
OneRayAtCorner(k) ==
    /\ Len(RaysAtCorner(k)) = 1
    /\ EndsAtCorner(RaysAtCorner(k)[1], k)

\* The corner gets two rays: one that ends at it, then the cast gone on
TwoRaysAtCorner(k) ==
    /\ Len(RaysAtCorner(k)) = 2
    /\ EndsAtCorner(RaysAtCorner(k)[1], k)
    /\ IsTheCast(RaysAtCorner(k)[2], k)

\* The corner is one the claim gives a single ray: the ray comes along the
\* line of an edge, or the corner is concave, or the way back to the origin
\* lies within the quadrant of the corner
SingleRayCase(k) ==
    \/ AlongGridLine(k)
    \/ IsConcave(lgUsed[k].direction)
    \/ ContainsOffsetStrict(lgUsed[k].direction, Negated(OffsetToCorner(k)))

\* C30 as stated: every corner that passes the tests gets one ray that ends
\* at it if the ray comes along the line of one of its edges or the corner is
\* concave or contained in the occluded side, and else two rays, one that
\* ends at it and one that goes on.
C30_OneAtCornerOrTwo ==
    lgArea.op = "trace"
    => \A k \in TracedCorners :
          Survives(k) => IF SingleRayCase(k) THEN OneRayAtCorner(k) ELSE TwoRaysAtCorner(k)

\* C30, amended: every corner that passes the tests gets one ray or two,
\* never none and never more.  A convex corner that the ray comes to along
\* one of its edges, the edge lying before the corner, gets one ray, the cast
\* that goes on past it, and none that ends at it.  Any other corner gets
\* one ray that ends at it if the ray comes along the line of one of its
\* edges or the corner is concave or contained in the occluded side, and else
\* two rays, one that ends at it and one that goes on.
C30_OneOrTwoRays ==
    lgArea.op = "trace"
    => \A k \in TracedCorners :
          Survives(k)
          => /\ Len(RaysAtCorner(k)) \in {1, 2}
             /\ IF EdgeBefore(k)
                THEN Len(RaysAtCorner(k)) = 1 /\ IsTheCast(RaysAtCorner(k)[1], k)
                ELSE IF SingleRayCase(k) THEN OneRayAtCorner(k) ELSE TwoRaysAtCorner(k)

\* A trace with a corner that gets two rays, a corner that gets the one that
\* ends at it for an edge beyond it, and a corner with the edge before it
\* that gets only the cast, which goes on past the corner
C30_Witness ==
    /\ lgArea.op = "trace"
    /\ \E k \in TracedCorners : Survives(k) /\ ~SingleRayCase(k) /\ TwoRaysAtCorner(k)
    /\ \E k \in TracedCorners :
          Survives(k) /\ AlongGridLine(k) /\ ~EdgeBefore(k) /\ OneRayAtCorner(k)
    /\ \E k \in TracedCorners :
          /\ Survives(k) /\ EdgeBefore(k)
          /\ Len(RaysAtCorner(k)) = 1
          /\ ~EndsAtCorner(RaysAtCorner(k)[1], k)

(***************************************************************************)
(* Claims about the logic evaluation of update_game                        *)
(***************************************************************************)
\* The number of input wires among the entities `keys`
RECURSIVE WireCount(_, _)
WireCount(inputs, keys) ==
    IF keys = {} THEN 0
    ELSE LET key == CHOOSE k \in keys : TRUE
         IN  Len(inputs[key]) + WireCount(inputs, keys \ {key})

\* Every entity is reached once from the initial stack and once more for
\* each wire that names it before it was visited, and waits at most once
\* for inputs it pushed.
LogicBound == 2 * Cardinality(LogicKeys) + WireCount(logic.inputs, LogicKeys)

LogicDone == ~logic.running /\ logic.iterations > 0

\* An entity that lists itself, and two entities that list each other
SelfWired == \E key \in LogicKeys : \E i \in DOMAIN logic.inputs[key] : logic.inputs[key][i] = key

CycleWired ==
    \E a, b \in LogicKeys :
        /\ a # b
        /\ \E i \in DOMAIN logic.inputs[a] : logic.inputs[a][i] = b
        /\ \E i \in DOMAIN logic.inputs[b] : logic.inputs[b][i] = a

\* C33: for every wiring of inputs among existing entities, cycles and
\* self-inputs included, the logic loop of update_game comes to its end, after
\* a bounded number of iterations, and has then called evaluate exactly once
\* for every entity (and never more than once on the way).
C33_LogicLoopEndsEachOnce ==
    /\ logic.running ~> ~logic.running
    /\ [](logic.iterations <= LogicBound)
    /\ [](\A key \in LogicKeys : logic.evaluated[key] <= 1)
    /\ [](LogicDone => \A key \in LogicKeys : logic.evaluated[key] = 1)

C33_Witness ==
    /\ LogicDone
    /\ SelfWired
    /\ CycleWired
    /\ \A key \in LogicKeys : logic.evaluated[key] = 1

(***************************************************************************)
(* Claims about the records of a History                                   *)
(***************************************************************************)
VariableRecords == {i \in DOMAIN data : data[i].kind = "Variable"}

\* The arm `0 => unreachable!()` of extend: a Constant record of no frame
\* extended by a value other than its own
ZeroLengthArm(record, entry) ==
    /\ record.kind = "Constant"
    /\ record.value # entry
    /\ record.finish - record.start = 0

\* C37: after any sequence of try_insert calls every record covers at least
\* one frame, a Constant record having finish > start and a Variable record
\* at least one value, so that no extend of a record of the History comes to
\* the unreachable!() arm for a Constant record of length zero.
C37_RecordsCoverFrames ==
    \A i \in DOMAIN data :
        /\ Finish(data[i]) > Start(data[i])
        /\ data[i].kind = "Constant" => data[i].finish > data[i].start
        /\ data[i].kind = "Variable" => Len(data[i].values) >= 1
        /\ \A entry \in HistValues : ~ZeroLengthArm(data[i], entry)

\* A Variable record a conversion left with a single value, before the
\* Constant record of the run
C37_Witness ==
    \E i \in VariableRecords :
        /\ Len(data[i].values) = 1
        /\ i < Len(data)
        /\ data[i + 1].kind = "Constant"
        /\ data[i + 1].start = data[i].start + 1
        /\ data[i + 1].finish > data[i + 1].start + 1

\* values[k .. k + n - 1] are n equal values
EqualRun(values, k, n) == \A j \in k..(k + n - 1) : values[j] = values[k]

\* The branch of extend that turns the whole Variable record into a Constant
\* record: every value equals the entry
WholeRecordConverts(record, entry) ==
    /\ record.kind = "Variable"
    /\ Len(record.values) >= CONVERSION_THRESHOLD
    /\ TrailingCount(record.values, entry) + 1 >= CONVERSION_THRESHOLD
    /\ Len(record.values) = TrailingCount(record.values, entry)

\* C38: after any sequence of try_insert calls no Variable record holds
\* CONVERSION_THRESHOLD or more equal values at consecutive frames, and no
\* Variable record and entry take the branch of extend that converts the
\* whole record into a Constant record.
C38_NoLongRunInVariable ==
    \A i \in VariableRecords :
        /\ \A k \in 1..(Len(data[i].values) - CONVERSION_THRESHOLD + 1) :
              ~EqualRun(data[i].values, k, CONVERSION_THRESHOLD)
        /\ \A entry \in HistValues : ~WholeRecordConverts(data[i], entry)

\* A Variable record long enough for the conversion test that ends in a run
\* one short of the threshold
C38_Witness ==
    \E i \in VariableRecords :
        /\ Len(data[i].values) >= CONVERSION_THRESHOLD
        /\ EqualRun(data[i].values, Len(data[i].values) - CONVERSION_THRESHOLD + 2,
                    CONVERSION_THRESHOLD - 1)
====
